---- MODULE Spec2Model ----
\* GIPS (GLSL Image Processing System): the application frame loop with its
\* one-slot pipeline change request (App::run, App::handleEvents, App::drawUI,
\* App::handlePCR, App::handleInputFile) and the pass instantiation part of
\* Node::load.
EXTENDS Integers, Sequences, FiniteSets, TLC

VARIABLES
    m_nodes,            \* Pipeline: the ordered node sequence (1-based here)
    m_showIndex,        \* App::m_showIndex, 0 = input image
    m_pcr,              \* App::m_pcr, the pending pipeline change request
    m_pipelineChanged,  \* Pipeline dirty flag (changed()/markAsChanged())
    oldShowIndex,       \* local of App::drawUI
    pc,                 \* position of App::run inside the current frame
    handled,            \* history: the request handlePCR handled in this frame
                        \* and the pipeline it found
    issued,             \* history: the last request issued in this frame and
                        \* whether it replaced an unconsumed one
    frameRenders,       \* history: executions of the pipeline in this frame
    resultShow,         \* the stage whose output Pipeline::resultTex() holds
    uploaded,           \* a base image was uploaded and not yet processed
    loop,               \* App::run's local hadEvents and m_active, with the
                        \* history of the waiting (<<>> where it is not followed)
    node,               \* a Node object on which Node::load is exercised
    loadInput,          \* the file contents handed to the last Node::load
    loadResult,         \* the return value of the last Node::load
    prevPrograms,       \* history: the pass programs before the last Node::load
    ld,                 \* Node::load in progress: its position and local variables
    m_passes,           \* Node::m_passes: the settings of each pass of the node
    sources,            \* history: the text handed to the compiler for each pass
    annot               \* history: the configuration annotations read so far

vars == <<m_nodes, m_showIndex, m_pcr, m_pipelineChanged,
          oldShowIndex, pc, handled, issued, frameRenders, resultShow, uploaded, loop,
          node, loadInput, loadResult, prevPrograms, ld, m_passes, sources, annot>>

frameVars == <<issued, frameRenders, resultShow, uploaded>>

appVars == <<m_nodes, m_showIndex, m_pcr, m_pipelineChanged,
             oldShowIndex, pc, handled, frameVars, loop>>

tokVars == <<ld, m_passes, sources, annot>>

loadVars == <<node, loadInput, loadResult, prevPrograms, tokVars>>

-----------------------------------------------------------------------------
\* Bounds of the model

MaxNodes == 3

\* node indices a request may carry: 0 is below the valid range [1, nodeCount],
\* MaxNodes + 1 is always above it
IndexRange == 0 .. (MaxNodes + 1)

Min(a, b) == IF a < b THEN a ELSE b

Max(a, b) == IF a > b THEN a ELSE b

-----------------------------------------------------------------------------
\* Node::load, pass instantiation

MaxPasses == 4

PassIndices == 0 .. (MaxPasses - 1)

\* outcome of fs.compile() / prog->link() for one assembled pass
CompileOutcomes == {"ok", "compile_error", "link_error"}

\* names of the supported uniforms a file declares, in the order of declaration
\* (newParams at the end of the tokenizer loop)
ParamLists == {<<>>, <<"strength">>, <<"strength", "key">>}

\* What the tokenizer loop of Node::load leaves behind for the pass loop
\* (passMask, newParams) together with what the GL compiler will answer for
\* each pass. The pass loop stops at the first pass that fails, so one failing
\* pass per file is enough.
FileContents ==
    { c \in [passMask : SUBSET PassIndices, gl : [PassIndices -> CompileOutcomes],
             newParams : ParamLists] :
        Cardinality({ k \in PassIndices : c.gl[k] # "ok" }) <= 1 }

\* a line of the diagnostic text is a tuple of its parts
ErrNoRun == <<"(GIPS) no valid 'run' or 'run_pass1' function found">>

ErrTruncated == <<"(GIPS) intermediate passes are missing, truncating pipeline">>

ErrCompile(k) == <<"shader log", k>>

ErrLink(k) == <<"program log", k>>

\* pass.program after prog->link(vs, fs)
LinkedProgram(outcome) == IF outcome = "ok" THEN "linked" ELSE "failed"

\* The pass loop of Node::load, from iteration currentPass on.
\* Yields the fields Node::load leaves at load_finalize. m_passCount was set
\* to 0 on entry; 'goto load_finalize' skips 'm_passCount = currentPass'.
RECURSIVE PassLoop(_, _, _, _, _)
PassLoop(c, currentPass, passMask, err, programs) ==
    IF currentPass < MaxPasses /\ currentPass \in passMask
    THEN LET mask2 == passMask \ {currentPass}
             out   == c.gl[currentPass]
         IN  IF out = "compile_error"
             THEN [passCount |-> 0,
                   errors    |-> Append(err, ErrCompile(currentPass)),
                   programs  |-> programs]
             ELSE IF out = "link_error"
             THEN [passCount |-> 0,
                   errors    |-> Append(err, ErrLink(currentPass)),
                   programs  |-> [programs EXCEPT ![currentPass] = LinkedProgram(out)]]
             ELSE PassLoop(c, currentPass + 1, mask2, err,
                           [programs EXCEPT ![currentPass] = LinkedProgram(out)])
    ELSE [passCount |-> currentPass,
          errors    |-> IF passMask # {} THEN Append(err, ErrTruncated) ELSE err,
          programs  |-> programs]

\* mutant: the pass loop does not stop at an undeclared pass
NodeLoad_NoGapCheck(n, c) ==
    IF 0 \notin c.passMask
    THEN [passCount |-> 0, errors |-> <<ErrNoRun>>, programs |-> n.programs,
          params |-> c.newParams]
    ELSE LET last == CHOOSE k \in c.passMask : \A j \in c.passMask : j <= k
             r    == PassLoop(c, 0, 0 .. last, <<>>, n.programs)
         IN  [passCount |-> r.passCount, errors |-> r.errors, programs |-> r.programs,
              params |-> c.newParams]

\* mutant: fewer than MaxPasses passes always count as a truncation
NodeLoad_AlwaysTruncated(n, c) ==
    IF 0 \notin c.passMask
    THEN [passCount |-> 0, errors |-> <<ErrNoRun>>, programs |-> n.programs,
          params |-> c.newParams]
    ELSE LET r == PassLoop(c, 0, c.passMask, <<>>, n.programs)
         IN  [passCount |-> r.passCount,
              errors |-> IF r.passCount < MaxPasses /\ r.passCount > 0
                         THEN <<ErrTruncated>> ELSE r.errors,
              programs |-> r.programs,
              params |-> c.newParams]

\* mutant: the missing first pass returns before load_finalize
NodeLoad_EarlyReturn(n, c) ==
    IF 0 \notin c.passMask
    THEN [passCount |-> 0, errors |-> n.errors, programs |-> n.programs,
          params |-> n.params]
    ELSE LET r == PassLoop(c, 0, c.passMask, <<>>, n.programs)
         IN  [passCount |-> r.passCount, errors |-> r.errors, programs |-> r.programs,
              params |-> c.newParams]

\* Node::load(filename, vs) on Node n with file contents c; load_finalize
\* stores the diagnostics and the new parameter list on every path
NodeLoad(n, c) ==
    IF 0 \notin c.passMask
    THEN [passCount |-> 0, errors |-> <<ErrNoRun>>, programs |-> n.programs,
          params |-> c.newParams]
    ELSE LET r == PassLoop(c, 0, c.passMask, <<>>, n.programs)
         IN  [passCount |-> r.passCount, errors |-> r.errors, programs |-> r.programs,
              params |-> c.newParams]

\* return (m_passCount > 0);
LoadReturn(n) == n.passCount > 0

FreshNode == [passCount |-> 0, errors |-> <<>>, programs |-> [k \in PassIndices |-> "none"],
              params |-> <<>>]

\* no file has been loaded yet
NoContents == [passMask |-> {}, gl |-> [k \in PassIndices |-> "none"], newParams |-> <<>>]

-----------------------------------------------------------------------------
\* Node::load, tokenizer loop: pass declarations and configuration comments.
\* One step reads one item of the file: a function header that may match the
\* pass pattern, or a comment holding one @coord or one @filter annotation.

\* bound: items read by one Node::load
MaxItems == 3

\* tt[3] of the pass pattern; "float" does not match it
ReturnTypes == {"float", "vec3", "vec4"}

\* tt[2] of the pass pattern: the entry point names the model feeds in
EntryNames == {"run", "run_pass1", "run_pass2"}

\* tt[0] of the pass pattern
ArgTypes == {"vec2", "vec3", "vec4"}

\* switch (tt[2]): the pass index of an entry point name
PassOf(name) ==
    CASE name = "run"       -> 0
      [] name = "run_pass1" -> 0
      [] name = "run_pass2" -> 1
      [] name = "run_pass3" -> 2
      [] name = "run_pass4" -> 3

\* switch (tt[0]): PassInput of the argument type
InputOf(arg) ==
    CASE arg = "vec2" -> "Coord"
      [] arg = "vec3" -> "RGB"
      [] arg = "vec4" -> "RGBA"

\* switch (tt[3]): PassOutput of the return type
OutputOf(ret) ==
    CASE ret = "vec3" -> "RGB"
      [] ret = "vec4" -> "RGBA"

\* key of the coord / coords / map branch that the model feeds in
CoordKeys == {"coord"}

\* key of the filter / filt branch that the model feeds in
FilterKeys == {"filter"}

\* value == nullptr: the annotation has no '=value' part
NoValue == "(null)"

\* values of a @coord annotation; "polar" is not a mode
CoordValues == {"pixel", "none", "relative", "rel", "polar", NoValue}

\* values of a @filter annotation; "cubic" is not a mode
FilterValues == {"on", "off", "point", "cubic"}

ErrNeedValue(key) == <<"(GIPS) '@", key, "' token requires a value">>

ErrCoordMode(value) == <<"(GIPS) unrecognized coordinate mapping mode '", value, "'">>

ErrFilterMode(value) == <<"(GIPS) unrecognized texture filtering mode '", value, "'">>

\* the annotation values the format defines
ValidCoordValues == {"pixel", "none", "relative", "rel"}

ValidFilterValues == {"1", "on", "linear", "bilinear", "0", "off", "nearest", "point"}

\* the coord / coords / map branch: the mode a value selects
CoordModeOf(value) ==
    CASE value = "pixel"                 -> "Pixel"
      [] value = "none"                  -> "None"
      [] value \in {"relative", "rel"}   -> "Relative"
      [] OTHER                           -> "unrecognized"

\* the filter / filt branch: the values that turn filtering on and off
FilterOn(value) == value \in {"1", "on", "linear", "bilinear"}

FilterOff(value) == value \in {"0", "off", "nearest", "point"}

\* The parsing helpers isKey, isValue, needParam, needValue, needNum and
\* setParamType are 'static const auto' closures that capture by reference
\* ([&]): they are constructed once, by the first annotation the process
\* evaluates, and refer to key, value, keyMatched, param, err, ... of that
\* invocation of Node::load for good.  "unbound": not constructed yet;
\* "own": they refer to the storage of the running invocation; "stale": they
\* refer to the frame of an earlier invocation that lay at another address.
HelperModes == {"unbound", "own", "stale"}

ErrUnrecognized(key) == <<"(GIPS) unrecognized token '@", key, "'">>

\* The tests of the annotation chain, made by stale helpers, look at the key,
\* value, isNum and param the dead frame holds, not at the annotation being
\* read: whatever the annotation, the chain takes the branch the dead
\* contents select.  That is a branch that leaves the running invocation
\* alone (toggle, color: the helpers write to 'err' and through 'param' of
\* the dead frame), the min/off, max/on or unit branch, one of the branches
\* of the coord and filter cases or the else of these two, or the last branch
\* of the chain (keyMatched of the running invocation is never set).  The
\* statements of the branches use fval, value, param and err of the running
\* invocation.
StaleOutcomes ==
    {"nothing", "min", "max", "unit", "Pixel", "None", "Relative", "on", "off",
     "unrecognized", "badCoord", "badFilter"}

\* the branches the dead frame can select, as far as the first annotation of
\* the invocation shows: 'param->m_minValue = fval', 'param->m_maxValue = fval'
\* and 'param->m_format = value' with param == nullptr end the process
Selectable(l) ==
    IF l.helpers # "stale" \/ l.stale # "undecided"
    THEN {l.stale}
    ELSE IF l.param = 0 THEN StaleOutcomes \ {"min", "max", "unit"} ELSE StaleOutcomes

StaleEval(l, key, value, outcome) ==
    [l EXCEPT !.items = @ + 1,
              !.coordMode = IF outcome \in {"Pixel", "None", "Relative"} THEN outcome ELSE @,
              !.texFilter = IF outcome = "on" THEN TRUE
                            ELSE IF outcome = "off" THEN FALSE ELSE @,
              !.err = CASE outcome = "unrecognized" -> Append(@, ErrUnrecognized(key))
                        [] outcome = "badCoord" /\ value # NoValue ->
                             Append(@, ErrCoordMode(value))
                        [] outcome = "badFilter" /\ value # NoValue ->
                             Append(@, ErrFilterMode(value))
                        [] OTHER -> @]

\* Node::load, tokenizer loop: parameters (uniform declarations) and the
\* annotations of their comments.  Here one item of the file is a uniform
\* declaration up to its ';', some other statement, or one comment.

\* a Parameter as its constructor leaves it
FreshParam ==
    [name     |-> "",
     type     |-> "Value",
     minValue |-> 0,
     maxValue |-> 1,
     value    |-> <<0, 0, 0, 0>>,
     desc     |-> <<>>,
     format   |-> <<>>]

\* mutant: three and four components default to the color types
DefaultTypeOf_ColorDefault(dataType) ==
    CASE dataType = "float" -> "Value"
      [] dataType = "vec2"  -> "Value2"
      [] dataType = "vec3"  -> "RGB"
      [] dataType = "vec4"  -> "RGBA"

\* switch (paramDataType): the default parameter type of a data type
DefaultTypeOf(dataType) ==
    CASE dataType = "float" -> "Value"
      [] dataType = "vec2"  -> "Value2"
      [] dataType = "vec3"  -> "Value3"
      [] dataType = "vec4"  -> "Value4"

\* strtof(token, &end) with end && !*end: the tokens that are numbers, and
\* their values
NumOf ==
    [t \in {"0", "1", "1.0", "-1", "2", "200"} |->
        CASE t = "0"   -> 0
          [] t = "1"   -> 1
          [] t = "1.0" -> 1
          [] t = "-1"  -> 0 - 1
          [] t = "2"   -> 2
          [] t = "200" -> 200]

isNum(token) == token \in DOMAIN NumOf

\* fval: 0.0f unless the value converts
fvalOf(token) == IF isNum(token) THEN NumOf[token] ELSE 0

\* a comment without annotations that lies inside a statement, and its text
InnerComment == "// x"

\* The tokens that follow the name of a new uniform, one iteration of the
\* tokenizer loop each, with the locals paramValueIndex and inParamStatement:
\* a comment is handled first (it becomes the description of the current
\* parameter, and 'param' is reset); the first token with a '=' starts the
\* capture; a number goes to m_value[paramValueIndex++] while that index is
\* below 4; a token with a ';' ends the statement.
RECURSIVE StoreValues(_, _, _, _)
StoreValues(l, tokens, paramValueIndex, inParamStatement) ==
    IF tokens = <<>>
    THEN l
    ELSE LET t    == Head(tokens)
             rest == Tail(tokens)
         IN  IF t = InnerComment
             THEN StoreValues([l EXCEPT
                                 !.newParams = IF l.param # 0
                                               THEN [@ EXCEPT ![l.param].desc = <<"x">>]
                                               ELSE @,
                                 !.param = 0],
                              rest, paramValueIndex, inParamStatement)
             ELSE IF l.param # 0 /\ inParamStatement /\ paramValueIndex < 0 /\ t = "="
             THEN StoreValues(l, rest, 0, inParamStatement)
             ELSE LET capture == /\ l.param # 0 /\ inParamStatement
                                 /\ paramValueIndex >= 0 /\ paramValueIndex < 4
                                 /\ isNum(t)
                      stored  == IF capture
                                 THEN [l EXCEPT !.newParams[l.param].value[paramValueIndex + 1] =
                                                    NumOf[t]]
                                 ELSE l
                      index   == IF capture THEN paramValueIndex + 1 ELSE paramValueIndex
                  IN  StoreValues(stored, rest, index, inParamStatement /\ t # ";")

\* the uniform declarations the model feeds in: data type, name and the
\* tokens that follow the name, up to the next item of the file
\*   uniform float s = 1.0;
\*   uniform vec3 c = vec3(1,0,0);
\*   uniform vec4 tint;
\*   uniform int count = 2;
\*   uniform vec4 m[2] = vec4(1,2,0,1) * 2;  k = 200;
\*   uniform vec2 d = vec2(1, // x
\*                         2);
UniformDecls ==
    { [kind |-> "uniform", dataType |-> "float", name |-> "s",
       tokens |-> <<"=", "1.0", ";">>, pieces |-> <<>>],
      [kind |-> "uniform", dataType |-> "vec3", name |-> "c",
       tokens |-> <<"=", "vec3", "(", "1", ",", "0", ",", "0", ")", ";">>, pieces |-> <<>>],
      [kind |-> "uniform", dataType |-> "vec4", name |-> "tint",
       tokens |-> <<";">>, pieces |-> <<>>],
      [kind |-> "uniform", dataType |-> "int", name |-> "count",
       tokens |-> <<"=", "2", ";">>, pieces |-> <<>>],
      [kind |-> "uniform", dataType |-> "vec4", name |-> "m",
       tokens |-> <<"[", "2", "]", "=", "vec4", "(", "1", ",", "2", ",", "0", ",", "1", ")",
                    "*", "2", ";", "k", "=", "200", ";">>, pieces |-> <<>>],
      [kind |-> "uniform", dataType |-> "vec2", name |-> "d",
       tokens |-> <<"=", "vec2", "(", "1", ",", InnerComment, "2", ")", ";">>,
       pieces |-> <<>>] }

\* a statement or function that matches neither pattern
OtherStatement ==
    [kind |-> "statement", dataType |-> "", name |-> "", tokens |-> <<>>, pieces |-> <<>>]

NoItem == [kind |-> "none"]

\* the pieces of a comment: free text and @key[=value] tokens
Text(words) == [key |-> "", value |-> NoValue, text |-> words]

Token(key, value) == [key |-> key, value |-> value, text |-> ""]

CommentOf(pieces) ==
    [kind |-> "comment", dataType |-> "", name |-> "", tokens |-> <<>>, pieces |-> pieces]

\* the comments the model feeds in
\*   // invert @toggle @off=1 @on=-1
\*   // @min=2 @max=-1
\*   // @bogus @min=2 label
\*   // @color
\*   // @gips_version=1
\*   // @rgb
\*   // grayscale downmix
\*   // @coord=rel
\*   // @unit=px @max=200
\*   // @min=x @unit @coord=polar @filter
Comments ==
    { CommentOf(<<Text("invert"), Token("toggle", NoValue), Token("off", "1"),
                  Token("on", "-1")>>),
      CommentOf(<<Token("min", "2"), Token("max", "-1")>>),
      CommentOf(<<Token("bogus", NoValue), Token("min", "2"), Text("label")>>),
      CommentOf(<<Token("color", NoValue)>>),
      CommentOf(<<Token("gips_version", "1")>>),
      CommentOf(<<Token("rgb", NoValue)>>),
      CommentOf(<<Text("grayscale downmix")>>),
      CommentOf(<<Token("coord", "rel")>>),
      CommentOf(<<Token("unit", "px"), Token("max", "200")>>),
      CommentOf(<<Token("min", "x"), Token("unit", NoValue), Token("coord", "polar"),
                  Token("filter", NoValue)>>) }

ErrNeedParam(key) == <<"(GIPS) '@", key, "' token is only valid inside a parameter comment">>

ErrNeedNum(key) == <<"(GIPS) '@", key, "' token requires a numeric value">>

ErrIncompatible(key, name) ==
    <<"(GIPS) '@", key, "' format is incompatible with uniform data type of parameter '", name>>

ErrUnsupported(name) == <<"(GIPS) uniform variable '", name, "' has unsupported data type">>

\* setParamType(dt, pt, fail): change the type of the current parameter if
\* its data type is dt, else report it (if fail)
setParamType(l, key, dt, pt, fail) ==
    IF l.paramDataType # dt
    THEN IF fail
         THEN [l EXCEPT !.err = Append(@, ErrIncompatible(key, l.newParams[l.param].name))]
         ELSE l
    ELSE [l EXCEPT !.newParams[l.param].type = pt]

\* needParam(), needNum(), needValue(): the diagnostic of a failed test
Diagnose(l, line) == [l EXCEPT !.err = Append(@, line)]

\* evaluate the tokens: the if / else-if chain over the key of one annotation,
\* with helper closures that refer to the running invocation
LiveAnnotation(l, a) ==
    LET key   == a.key
        value == a.value
    IN  CASE key \in {"min", "off"} ->
               IF l.param = 0 THEN Diagnose(l, ErrNeedParam(key))
               ELSE IF ~isNum(value) THEN Diagnose(l, ErrNeedNum(key))
               ELSE [l EXCEPT !.newParams[l.param].minValue = fvalOf(value)]
          [] key \in {"max", "on"} ->
               IF l.param = 0 THEN Diagnose(l, ErrNeedParam(key))
               ELSE IF ~isNum(value) THEN Diagnose(l, ErrNeedNum(key))
               ELSE [l EXCEPT !.newParams[l.param].maxValue = fvalOf(value)]
          [] key = "unit" ->
               IF l.param = 0 THEN Diagnose(l, ErrNeedParam(key))
               ELSE IF value = NoValue THEN Diagnose(l, ErrNeedValue(key))
               ELSE [l EXCEPT !.newParams[l.param].format = <<value>>]
          [] key \in {"toggle", "switch"} ->
               IF l.param = 0 THEN Diagnose(l, ErrNeedParam(key))
               ELSE setParamType(l, key, "float", "Toggle", TRUE)
          [] key = "color" ->
               IF l.param = 0 THEN Diagnose(l, ErrNeedParam(key))
               ELSE IF l.paramDataType = "vec3"
                    THEN setParamType(l, key, "vec3", "RGB", FALSE)
                    ELSE setParamType(l, key, "vec4", "RGBA", TRUE)
          [] key \in {"coord", "coords", "map"} ->
               IF value = NoValue THEN Diagnose(l, ErrNeedValue(key))
               ELSE IF CoordModeOf(value) = "unrecognized"
                    THEN Diagnose(l, ErrCoordMode(value))
                    ELSE [l EXCEPT !.coordMode = CoordModeOf(value)]
          [] key \in {"filter", "filt"} ->
               IF value = NoValue THEN Diagnose(l, ErrNeedValue(key))
               ELSE IF FilterOn(value) THEN [l EXCEPT !.texFilter = TRUE]
               ELSE IF FilterOff(value) THEN [l EXCEPT !.texFilter = FALSE]
               ELSE Diagnose(l, ErrFilterMode(value))
          [] OTHER -> Diagnose(l, ErrUnrecognized(key))

\* one annotation evaluated by stale helpers: the statements of the min/off,
\* max/on and unit branches write through the running invocation's 'param'
\* (taken with param == nullptr they end the process, which is no state of
\* the model)
StaleAnnotation(l, a, outcome) ==
    CASE outcome = "min" /\ l.param # 0 ->
           [l EXCEPT !.newParams[l.param].minValue = fvalOf(a.value)]
      [] outcome = "max" /\ l.param # 0 ->
           [l EXCEPT !.newParams[l.param].maxValue = fvalOf(a.value)]
      [] outcome = "unit" /\ l.param # 0 /\ a.value # NoValue ->
           [l EXCEPT !.newParams[l.param].format = <<a.value>>]
      [] OTHER -> [StaleEval(l, a.key, a.value, outcome) EXCEPT !.items = l.items]

\* the annotations of a comment, in their order
Annotations(pieces) == SelectSeq(pieces, LAMBDA p : p.key # "")

\* the text of a comment after every @token has been spliced out, without
\* the surrounding whitespace: the words that are left
Remaining(pieces) ==
    LET texts == SelectSeq(pieces, LAMBDA p : p.key = "")
    IN  [i \in 1 .. Len(texts) |-> texts[i].text]

\* the comment tokenizer loop: every annotation of the comment is evaluated,
\* whatever the earlier ones did
RECURSIVE EvalAnnotations(_, _, _)
EvalAnnotations(l, annotations, i) ==
    IF i > Len(annotations)
    THEN l
    ELSE EvalAnnotations(
             IF l.helpers = "stale"
             THEN StaleAnnotation(l, annotations[i], l.stale)
             ELSE [LiveAnnotation(l, annotations[i]) EXCEPT !.helpers = "own"],
             annotations, i + 1)

\* comment handling: the annotations, then the description of the current
\* parameter, then 'param = nullptr'
EvalComment(l, item) ==
    LET after == EvalAnnotations(l, Annotations(item.pieces), 1)
        desc  == Remaining(item.pieces)
    IN  [after EXCEPT
           !.items = @ + 1,
           !.newParams = IF after.param # 0 /\ desc # <<>>
                         THEN [@ EXCEPT ![after.param].desc = desc]
                         ELSE @,
           !.param = 0]

\* check for new uniform, default value assignment, end of the statement
EvalUniform(l, item) ==
    IF item.dataType \in {"float", "vec2", "vec3", "vec4"}
    THEN StoreValues([l EXCEPT
                        !.items = @ + 1,
                        !.newParams = Append(@, [FreshParam EXCEPT
                                                   !.name = item.name,
                                                   !.type = DefaultTypeOf(item.dataType)]),
                        !.param = Len(l.newParams) + 1,
                        !.paramDataType = item.dataType],
                     item.tokens, 0 - 1, TRUE)
    ELSE StoreValues([l EXCEPT
                        !.items = @ + 1,
                        !.err = Append(@, ErrUnsupported(item.name))],
                     item.tokens, 0 - 1, FALSE)

\* std::floor(std::log10(std::max(absMax, 1e-6f))) for the values of NumOf
FloorLog10(absMax) ==
    IF absMax = 0 THEN 0 - 6
    ELSE IF absMax < 10 THEN 0
    ELSE IF absMax < 100 THEN 1
    ELSE 2

\* finalize parameters: the auto-scaled format, followed by the unit
Finalize(p) ==
    LET abs(x) == IF x < 0 THEN 0 - x ELSE x
        absMax == Max(abs(p.minValue), abs(p.maxValue))
        vscale == Max(0, 2 - FloorLog10(absMax))
        fmt    == <<"%.", <<"0", "1", "2", "3", "4", "5", "6", "7", "8">>[vscale + 1], "f">>
    IN  [p EXCEPT !.format = IF @ = <<>> THEN fmt ELSE fmt \o <<" ">> \o @]

FinalizeParams(newParams) == [i \in 1 .. Len(newParams) |-> Finalize(newParams[i])]

\* the local variables of Node::load at their initial values
InitialLocals ==
    [phase      |-> "tokenizing",
     items      |-> 0,
     helpers    |-> "unbound",
     stale      |-> "undecided",
     passMask   |-> {},
     singlePass |-> FALSE,
     inputs     |-> [k \in PassIndices |-> "undef"],
     outputs    |-> [k \in PassIndices |-> "undef"],
     texFilter  |-> TRUE,
     coordMode  |-> "Pixel",
     err        |-> <<>>,
     newParams  |-> <<>>,
     param      |-> 0,
     paramDataType |-> "Other"]

\* a Pass as the Node's constructor leaves it
FreshPass == [texFilter |-> TRUE, coordMode |-> "None", locMap2Tex |-> "-1"]

\* no load of the file has finished yet
NoFirst == [loaded |-> FALSE]

\* history of the items read: the item read last, the parameter it was read
\* for (0: none) as it was before, whether other tokens lay between that
\* parameter and the item, the number of diagnostics before, the parameters
\* that had a comment; the file that is loaded twice, what is left to read
\* of it, and what its first load produced; the last declaration of each pass
\* with the modes in force at it, and the declaration just read if it
\* repeated a pass index; the item before the comment read last, and the
\* coordinate and filter modes before it
NoHistory ==
    [item       |-> NoItem,
     target     |-> 0,
     gap        |-> FALSE,
     before     |-> NoItem,
     errBefore  |-> 0,
     commented  |-> {},
     file       |-> <<>>,
     replay     |-> <<>>,
     first      |-> NoFirst,
     reloaded   |-> FALSE,
     lastDecl   |-> [k \in PassIndices |-> NoItem],
     dup        |-> NoItem,
     prev       |-> NoItem,
     modes      |-> <<>>]

History == IF annot.history = <<>> THEN NoHistory ELSE annot.history[1]

\* no configuration annotation read, no pass declared
NoAnnotations ==
    [lastCoord  |-> NoValue,
     lastFilter |-> NoValue,
     declCoord  |-> [k \in PassIndices |-> NoValue],
     declFilter |-> [k \in PassIndices |-> NoValue],
     configured |-> FALSE,
     history    |-> <<>>]

TokInit ==
    /\ ld = InitialLocals
    /\ m_passes = [k \in PassIndices |-> FreshPass]
    /\ sources = [k \in PassIndices |-> <<>>]
    /\ annot = NoAnnotations

\* a pass declaration 'ret name(arg' as the history keeps it
DeclOf(ret, name, arg) ==
    [kind |-> "pass", ret |-> ret, name |-> name, arg |-> arg]

\* mutant: a pass index that is declared again keeps its first declaration
Declare_FirstWins(l, ret, name, arg) ==
    IF PassOf(name) \in l.passMask
    THEN [l EXCEPT !.items = @ + 1]
    ELSE [l EXCEPT
            !.items = @ + 1,
            !.singlePass = IF name = "run" THEN TRUE
                           ELSE IF name = "run_pass1" THEN FALSE ELSE @,
            !.passMask = @ \cup {PassOf(name)},
            !.inputs[PassOf(name)] = InputOf(arg),
            !.outputs[PassOf(name)] = OutputOf(ret)]

\* check pass definition: the locals after a declaration that matches the
\* pass pattern
Declare(l, ret, name, arg) ==
    [l EXCEPT
       !.items = @ + 1,
       !.singlePass = IF name = "run" THEN TRUE
                      ELSE IF name = "run_pass1" THEN FALSE ELSE @,
       !.passMask = @ \cup {PassOf(name)},
       !.inputs[PassOf(name)] = InputOf(arg),
       !.outputs[PassOf(name)] = OutputOf(ret)]

\* the history after an item: <<>> as long as there is nothing to keep
Keep(h) == IF h = NoHistory THEN <<>> ELSE <<h>>

\* a function header 'ret name(arg': a pass declaration if it matches the
\* pass pattern
ReadPassDecl ==
    /\ ld.phase = "tokenizing"
    /\ ld.items < MaxItems
    /\ \E ret \in ReturnTypes, name \in EntryNames, arg \in ArgTypes :
        IF ret \in {"vec3", "vec4"}
        THEN LET currentPass == PassOf(name)
             IN  /\ ld' = Declare(ld, ret, name, arg)
                 /\ m_passes' = [m_passes EXCEPT
                                  ![currentPass].texFilter = ld.texFilter,
                                  ![currentPass].coordMode = ld.coordMode]
                 /\ annot' = [annot EXCEPT
                               !.declCoord[currentPass] = annot.lastCoord,
                               !.declFilter[currentPass] = annot.lastFilter,
                               !.history = Keep([History EXCEPT
                                   !.lastDecl[currentPass] =
                                       [decl      |-> DeclOf(ret, name, arg),
                                        texFilter |-> ld.texFilter,
                                        coordMode |-> ld.coordMode],
                                   !.errBefore = IF currentPass \in ld.passMask
                                                 THEN Len(ld.err) ELSE 0,
                                   !.dup = IF currentPass \in ld.passMask
                                           THEN DeclOf(ret, name, arg) ELSE NoItem])]
        ELSE /\ ld' = [ld EXCEPT !.items = @ + 1]
             /\ m_passes' = m_passes
             /\ annot' = [annot EXCEPT !.history =
                             Keep([History EXCEPT !.errBefore = 0, !.dup = NoItem])]
    /\ UNCHANGED <<appVars, node, loadInput, loadResult, prevPrograms, sources>>

\* a comment, not following a parameter, that holds one @coord annotation
ReadCoordComment ==
    /\ ld.phase = "tokenizing"
    /\ ld.items < MaxItems
    /\ \E key \in CoordKeys, value \in CoordValues :
        /\ IF ld.helpers = "stale"
           THEN \E outcome \in Selectable(ld) :
                    ld' = [StaleEval(ld, key, value, outcome) EXCEPT !.stale = outcome]
           ELSE ld' = [ld EXCEPT
                        !.items = @ + 1,
                        !.helpers = "own",
                        !.coordMode = IF value = NoValue \/ CoordModeOf(value) = "unrecognized"
                                      THEN @ ELSE CoordModeOf(value),
                        !.err = IF value = NoValue THEN Append(@, ErrNeedValue(key))
                                ELSE IF CoordModeOf(value) = "unrecognized"
                                THEN Append(@, ErrCoordMode(value)) ELSE @]
        /\ annot' = [annot EXCEPT
                      !.configured = TRUE,
                      !.lastCoord = IF value \in ValidCoordValues THEN value ELSE @,
                      !.history = Keep([History EXCEPT !.errBefore = 0, !.dup = NoItem])]
    /\ UNCHANGED <<appVars, node, loadInput, loadResult, prevPrograms, m_passes, sources>>

\* a comment, not following a parameter, that holds one @filter annotation
ReadFilterComment ==
    /\ ld.phase = "tokenizing"
    /\ ld.items < MaxItems
    /\ \E key \in FilterKeys, value \in FilterValues :
        /\ IF ld.helpers = "stale"
           THEN \E outcome \in Selectable(ld) :
                    ld' = [StaleEval(ld, key, value, outcome) EXCEPT !.stale = outcome]
           ELSE ld' = [ld EXCEPT
                        !.items = @ + 1,
                        !.helpers = "own",
                        !.texFilter = IF value = NoValue THEN @
                                      ELSE IF FilterOn(value) THEN TRUE
                                      ELSE IF FilterOff(value) THEN FALSE ELSE @,
                        !.err = IF value = NoValue THEN Append(@, ErrNeedValue(key))
                                ELSE IF FilterOn(value) \/ FilterOff(value) THEN @
                                ELSE Append(@, ErrFilterMode(value))]
        /\ annot' = [annot EXCEPT
                      !.configured = TRUE,
                      !.lastFilter = IF value \in ValidFilterValues THEN value ELSE @,
                      !.history = Keep([History EXCEPT !.errBefore = 0, !.dup = NoItem])]
    /\ UNCHANGED <<appVars, node, loadInput, loadResult, prevPrograms, m_passes, sources>>

\* check pass definition, for 'vec3 run(vec3 c)'
EvalRun(l) == Declare(l, "vec3", "run", "vec3")

\* a uniform declaration statement
ReadUniform ==
    /\ ld.phase = "tokenizing"
    /\ ld.items < MaxItems
    /\ \E item \in UniformDecls :
        /\ ld' = EvalUniform(ld, item)
        /\ annot' = [annot EXCEPT !.history = <<[History EXCEPT
                      !.item = item, !.target = 0,
                      !.gap = (item.dataType \notin {"float", "vec2", "vec3", "vec4"})]>>]
    /\ UNCHANGED <<appVars, node, loadInput, loadResult, prevPrograms, m_passes, sources>>

\* some other statement: no pattern matches, and 'param' stays as it is
ReadStatement ==
    /\ ld.phase = "tokenizing"
    /\ ld.items < MaxItems
    /\ ld' = [ld EXCEPT !.items = @ + 1]
    /\ annot' = [annot EXCEPT !.history =
                  <<[History EXCEPT !.item = OtherStatement, !.target = 0, !.gap = TRUE]>>]
    /\ UNCHANGED <<appVars, node, loadInput, loadResult, prevPrograms, m_passes, sources>>

\* a comment
ReadComment ==
    /\ ld.phase = "tokenizing"
    /\ ld.items < MaxItems
    /\ \E item \in Comments :
        /\ \E outcome \in (IF Annotations(item.pieces) = <<>>
                            THEN {ld.stale} ELSE Selectable(ld)) :
              ld' = EvalComment([ld EXCEPT !.stale = outcome], item)
        /\ annot' = [annot EXCEPT !.history =
                      <<[History EXCEPT
                           !.item = item,
                           !.target = ld.param,
                           !.before = IF ld.param = 0 THEN NoItem
                                      ELSE ld.newParams[ld.param],
                           !.errBefore = Len(ld.err),
                           !.commented = @ \cup ({ld.param} \ {0}),
                           !.prev = History.item,
                           !.modes = <<ld.coordMode, ld.texFilter>>]>>]
    /\ UNCHANGED <<appVars, node, loadInput, loadResult, prevPrograms, m_passes, sources>>

\* the declaration 'vec3 run(vec3 c)' of a color filter
ReadRun ==
    /\ ld.phase = "tokenizing"
    /\ ld.items < MaxItems
    /\ ld' = EvalRun(ld)
    /\ m_passes' = [m_passes EXCEPT
                     ![PassOf("run")].texFilter = ld.texFilter,
                     ![PassOf("run")].coordMode = ld.coordMode]
    /\ annot' = [annot EXCEPT !.history =
                  <<[History EXCEPT !.item = OtherStatement, !.target = 0, !.gap = TRUE]>>]
    /\ UNCHANGED <<appVars, node, loadInput, loadResult, prevPrograms, sources>>

\* Node::load, pass loop: the fragment shader text of one pass, as the
\* sequence of the pieces written to the stream 'shader'

\* the file's text, passed on verbatim
UserCode == "<code>"

PixelHelper ==
    <<"vec4 pixel(in vec2 pos) {\n",
      "  return texture(gips_tex, gips_map2tex.xy + pos * gips_map2tex.zw);\n",
      "}\n">>

Prefetch == "  vec4 color = texture(gips_tex, gips_pos);\n"

\* fragment shader assembly: boilerplate
Boilerplate(input) ==
    <<"#version 330 core\n", "#line 8000 0\n", "in vec2 gips_pos;\n",
      "out vec4 gips_frag;\n", "uniform sampler2D gips_tex;\n",
      "uniform vec2 gips_image_size;\n">>
    \o (IF input = "Coord"
        THEN <<"uniform vec4 gips_map2tex;\n">> \o PixelHelper
        ELSE <<>>)

\* fragment shader assembly: add user code
LineDirective(currentPass) ==
    <<"#line 1 1\n", "#line 1 2\n", "#line 1 3\n", "#line 1 4\n">>[currentPass + 1]

\* mutant: the source color is never fetched
MainPrologue_NoPrefetch(input) ==
    <<"\n#line 9000 0\n", "void main() {\n">>

\* fragment shader assembly: main() function prologue
MainPrologue(input) ==
    <<"\n#line 9000 0\n", "void main() {\n">>
    \o (IF input # "Coord" THEN <<Prefetch>> ELSE <<>>)

\* mutant: the suffix is the zero-based pass index
PassSuffix_ZeroBased(currentPass) ==
    <<"_pass0", "_pass1", "_pass2", "_pass3">>[currentPass + 1]

PassSuffix(currentPass) == <<"_pass1", "_pass2", "_pass3", "_pass4">>[currentPass + 1]

\* mutant: a three-component result always gets alpha 1.0
OutputStatement_AlphaOne(currentPass, input, output, singlePass) ==
    <<"  gips_frag = ">>
    \o (IF output = "RGB" THEN <<"vec4(">> ELSE <<>>)
    \o <<"run">>
    \o (IF currentPass # 0 \/ ~singlePass THEN <<PassSuffix(currentPass)>> ELSE <<>>)
    \o (CASE input = "Coord" -> <<"(gips_pos)">>
          [] input = "RGB"   -> <<"(color.rgb)">>
          [] input = "RGBA"  -> <<"(color)">>)
    \o (IF output = "RGB" THEN <<", 1.0)">> ELSE <<>>)
    \o <<";\n}\n">>

\* fragment shader assembly: output statement generation
OutputStatement(currentPass, input, output, singlePass) ==
    <<"  gips_frag = ">>
    \o (IF output = "RGB" THEN <<"vec4(">> ELSE <<>>)
    \o <<"run">>
    \o (IF currentPass # 0 \/ ~singlePass THEN <<PassSuffix(currentPass)>> ELSE <<>>)
    \o (CASE input = "Coord" -> <<"(gips_pos)">>
          [] input = "RGB"   -> <<"(color.rgb)">>
          [] input = "RGBA"  -> <<"(color)">>)
    \o (IF output = "RGB"
        THEN IF input = "Coord" THEN <<", 1.0)">> ELSE <<", color.a)">>
        ELSE <<>>)
    \o <<";\n}\n">>

\* what one iteration of the pass loop writes to the stream 'shader'
PassText(currentPass, l) ==
    Boilerplate(l.inputs[currentPass])
    \o <<LineDirective(currentPass), UserCode>>
    \o MainPrologue(l.inputs[currentPass])
    \o OutputStatement(currentPass, l.inputs[currentPass], l.outputs[currentPass],
                       l.singlePass)

\* shader.str() at the compile of pass currentPass: shader.clear() resets the
\* state flags of the stream, not its contents, so the text written for the
\* earlier passes is still in front
RECURSIVE ShaderStream(_, _)
ShaderStream(currentPass, l) ==
    IF currentPass = 0
    THEN PassText(0, l)
    ELSE ShaderStream(currentPass - 1, l) \o PassText(currentPass, l)

\* the iterations the pass loop enters: the pass and every earlier one are
\* declared, and every earlier one compiled and linked
LoopIterations(c) ==
    { k \in PassIndices :
        /\ \A j \in 0 .. k : j \in c.passMask
        /\ \A j \in 0 .. (k - 1) : c.gl[j] = "ok" }

\* mutant: the coordinate mode of the declaration is kept for every input
ForcedCoordMode_Keep(input, coordMode) == coordMode

\* if (input != PassInput::Coord) pass.coordMode = CoordMapMode::None
ForcedCoordMode(input, coordMode) ==
    IF input # "Coord" THEN "None" ELSE coordMode

\* pass.locMap2Tex after the uniform lookup
LocMap2Tex(input) == IF input = "Coord" THEN "gips_map2tex" ELSE "-1"

\* the answers of the GL compiler to one load of a file with the declared
\* passes passMask: every pass is accepted, or one of the passes the loop
\* hands over is rejected (the passes after it are never handed over); the
\* linker's rejections take the same path and are followed in SpecLoad
GLAnswers(passMask) ==
    { gl \in [PassIndices -> CompileOutcomes] :
        /\ Cardinality({ k \in PassIndices : gl[k] # "ok" }) <= 1
        /\ \A k \in PassIndices : gl[k] # "link_error"
        /\ \A k \in PassIndices : gl[k] # "ok" => \A j \in 0 .. k : j \in passMask }

\* end of the code: first-pass check, pass loop and load_finalize
FinishLoad ==
    /\ ld.phase = "tokenizing"
    /\ \E gl \in GLAnswers(ld.passMask) :
        LET c    == [passMask |-> ld.passMask, gl |-> gl, newParams |-> FinalizeParams(ld.newParams)]
            r    == NodeLoad(node, c)
            iter == LoopIterations(c)
        IN  /\ node' = [r EXCEPT !.errors = ld.err \o r.errors]
            /\ loadInput' = c
            /\ loadResult' = LoadReturn(r)
            /\ prevPrograms' = node.programs
            /\ m_passes' = [k \in PassIndices |->
                              IF k \in iter
                              THEN [m_passes[k] EXCEPT
                                      !.coordMode = ForcedCoordMode(ld.inputs[k], @),
                                      !.locMap2Tex = IF gl[k] = "ok"
                                                     THEN LocMap2Tex(ld.inputs[k]) ELSE @]
                              ELSE m_passes[k]]
            /\ sources' = [k \in PassIndices |->
                              IF k \in iter THEN ShaderStream(k, ld) ELSE <<>>]
    /\ ld' = [ld EXCEPT !.phase = "done"]
    /\ UNCHANGED <<appVars, annot>>

\* a later invocation of Node::load, for another Node: the locals start
\* afresh, the static helpers stay as they are, and the new frame may or may
\* not lie where the frame they refer to lay
BeginLoad ==
    /\ ld.phase = "done"
    /\ \E h \in (IF ld.helpers = "unbound" THEN {"unbound"} ELSE {"own", "stale"}) :
        ld' = [InitialLocals EXCEPT !.helpers = h]
    /\ node' = FreshNode
    /\ loadInput' = NoContents
    /\ loadResult' = FALSE
    /\ prevPrograms' = FreshNode.programs
    /\ m_passes' = [k \in PassIndices |-> FreshPass]
    /\ sources' = [k \in PassIndices |-> <<>>]
    /\ annot' = NoAnnotations
    /\ UNCHANGED appVars

\* Node::reload: Node::load run again on the same Node and the same file.
\* The file is fixed before the first load, and both loads read its items in
\* their order.

\* items of the files that are loaded twice
RunDecl ==
    [kind |-> "run", dataType |-> "vec3", name |-> "run", tokens |-> <<>>, pieces |-> <<>>]

ReloadItems ==
    { d \in UniformDecls : d.dataType \in {"float", "vec3"} }
    \cup { CommentOf(<<Text("invert"), Token("toggle", NoValue), Token("off", "1"),
                      Token("on", "-1")>>),
           CommentOf(<<Token("min", "2"), Token("max", "-1")>>),
           CommentOf(<<Text("grayscale downmix")>>),
           RunDecl }

ReloadFiles == UNION { [1 .. n -> ReloadItems] : n \in 1 .. MaxItems }

\* one item of the file, read by the tokenizer loop
EvalItem(l, item) ==
    CASE item.kind = "uniform" -> EvalUniform(l, item)
      [] item.kind = "comment" -> EvalComment(l, item)
      [] item.kind = "run"     -> EvalRun(l)
      [] OTHER                 -> [l EXCEPT !.items = @ + 1]

\* the text of the file on disk
ChooseFile ==
    /\ ld.phase = "tokenizing"
    /\ ld.items = 0
    /\ History.file = <<>>
    /\ \E file \in ReloadFiles :
        annot' = [annot EXCEPT !.history =
                    <<[History EXCEPT !.file = file, !.replay = file]>>]
    /\ UNCHANGED <<appVars, node, loadInput, loadResult, prevPrograms, ld, m_passes, sources>>

\* the tokenizer loop reads the next item of the file
ReplayItem ==
    /\ ld.phase = "tokenizing"
    /\ History.replay # <<>>
    /\ LET item == Head(History.replay)
       IN  /\ \E outcome \in (IF Annotations(item.pieces) = <<>>
                              THEN {ld.stale} ELSE Selectable(ld)) :
                 ld' = EvalItem([ld EXCEPT !.stale = outcome], item)
           /\ m_passes' = IF item.kind = "run"
                          THEN [m_passes EXCEPT
                                  ![PassOf("run")].texFilter = ld.texFilter,
                                  ![PassOf("run")].coordMode = ld.coordMode]
                          ELSE m_passes
    /\ annot' = [annot EXCEPT !.history = <<[History EXCEPT !.replay = Tail(@)]>>]
    /\ UNCHANGED <<appVars, node, loadInput, loadResult, prevPrograms, sources>>

\* end of the file: the GL compiler gives the same text the same answer
FinishReplay ==
    /\ History.file # <<>>
    /\ History.replay = <<>>
    /\ FinishLoad
    /\ History.first.loaded => loadInput'.gl = History.first.gl

\* what the first load has left in the Node
FirstLoad ==
    [loaded    |-> TRUE,
     passCount |-> node.passCount,
     errors    |-> node.errors,
     params    |-> node.params,
     sources   |-> sources,
     gl        |-> loadInput.gl]

\* the UI sets the first component of a parameter to 2
EditValue ==
    /\ ld.phase = "done"
    /\ ~History.reloaded
    /\ \E i \in 1 .. Len(node.params) :
        /\ node.params[i].value[1] # 2
        /\ node' = [node EXCEPT !.params[i].value[1] = 2]
    /\ annot' = [annot EXCEPT !.history =
                  <<[History EXCEPT !.first = IF @.loaded THEN @ ELSE FirstLoad]>>]
    /\ UNCHANGED <<appVars, loadInput, loadResult, prevPrograms, ld, m_passes, sources>>

\* Node::reload: the same file once more, in a later invocation of Node::load
BeginReload ==
    /\ ld.phase = "done"
    /\ ~History.reloaded
    /\ \E h \in (IF ld.helpers = "unbound" THEN {"unbound"} ELSE {"own", "stale"}) :
        ld' = [InitialLocals EXCEPT !.helpers = h]
    /\ annot' = [annot EXCEPT !.history = <<[History EXCEPT
                  !.first = IF @.loaded THEN @ ELSE FirstLoad,
                  !.replay = History.file,
                  !.reloaded = TRUE]>>]
    /\ UNCHANGED <<appVars, node, loadInput, loadResult, prevPrograms, m_passes, sources>>

LoadInit ==
    /\ node = FreshNode
    /\ loadInput = NoContents
    /\ loadResult = FALSE
    /\ prevPrograms = FreshNode.programs
    /\ TokInit

\* one call of Node::load (a first load or a reload) with arbitrary contents
Load ==
    \E c \in FileContents :
        /\ node' = NodeLoad(node, c)
        /\ loadInput' = c
        /\ loadResult' = LoadReturn(NodeLoad(node, c))
        /\ prevPrograms' = node.programs
        /\ UNCHANGED <<appVars, tokVars>>

-----------------------------------------------------------------------------
\* Files and paths

ShaderExts == {"glsl", "frag", "gips"}

ImageExts == {"jpg", "jpeg", "jpe", "png", "tga", "bmp", "psd", "gif", "pgm", "ppm", "pnm"}

SaveImageExts == {"jpg", "jpeg", "jpe", "png", "tga", "bmp"}

isShaderFile(ext) == ext \in ShaderExts

isImageFile(ext) == ext \in ImageExts

isSaveImageFile(ext) == ext \in SaveImageExts

\* a path is represented by its extension (StringUtil::extractExtCode)
NoPath == ""

DropPaths == {"glsl", "png", "txt"}

SavePaths == {"png", "gif"}

-----------------------------------------------------------------------------
\* Pipeline (node sequence); C++ indices are 0-based, sequences 1-based

nodeCount == Len(m_nodes)

NodeIds(nodes) == { nodes[i].id : i \in 1 .. Len(nodes) }

FreshId(nodes) == CHOOSE i \in 1 .. (Len(nodes) + 1) : i \notin NodeIds(nodes)
                      /\ \A j \in 1 .. (i - 1) : j \in NodeIds(nodes)

\* Pipeline::addNode(filename, index): insert before 0-based index, append
\* when the index is outside [0, nodeCount)
AddNodeAt(nodes, index, n) ==
    IF index < 0 \/ index >= Len(nodes)
    THEN Append(nodes, n)
    ELSE SubSeq(nodes, 1, index) \o <<n>> \o SubSeq(nodes, index + 1, Len(nodes))

\* the index Pipeline::addNode(filename) takes when the caller gives none
DefaultIndex == 0 - 1

\* Pipeline::removeNode(index), 0-based
RemoveNodeAt(nodes, index) ==
    IF index < 0 \/ index >= Len(nodes)
    THEN nodes
    ELSE SubSeq(nodes, 1, index) \o SubSeq(nodes, index + 2, Len(nodes))

\* Pipeline::moveNode(fromIndex, toIndex), 0-based
MoveNodeAt(nodes, fromIndex, toIndex) ==
    IF fromIndex < 0 \/ fromIndex >= Len(nodes) \/ toIndex < 0 \/ toIndex >= Len(nodes)
    THEN nodes
    ELSE AddNodeAt(RemoveNodeAt(nodes, fromIndex), toIndex, nodes[fromIndex + 1])

\* Node::reload: load() again from the node's own file, in place. The compiled
\* state of a node is not part of the pipeline-level state (Node::load is
\* modelled on the variable node), so the sequence is as before.
ReloadNodeAt(nodes, index) == nodes

-----------------------------------------------------------------------------
\* PipelineChangeRequest

PCRTypes == {"None", "InsertNode", "ReloadNode", "RemoveNode", "MoveNode",
             "UpdateSource", "LoadImage", "SaveResult"}

NoPCR == [type |-> "None", nodeIndex |-> 0, targetIndex |-> 0, path |-> NoPath]

\* mutant: the lower bound of the index check off by one
validNodeIndex_ZeroBased == (m_pcr.nodeIndex >= 0) /\ (m_pcr.nodeIndex <= nodeCount)

\* bool validNodeIndex = (m_pcr.nodeIndex > 0) && (m_pcr.nodeIndex <= nodeCount)
validNodeIndex == (m_pcr.nodeIndex > 0) /\ (m_pcr.nodeIndex <= nodeCount)

\* the condition of the MoveNode case
validMove ==
    /\ validNodeIndex
    /\ m_pcr.nodeIndex # m_pcr.targetIndex
    /\ m_pcr.targetIndex > 0
    /\ m_pcr.targetIndex <= nodeCount

\* mutant: > instead of >=
ShowAfterInsert_Strict(show, nodeIndex) ==
    IF show > nodeIndex THEN show + 1 ELSE show

\* InsertNode at a valid index: if (m_showIndex >= m_pcr.nodeIndex) ++m_showIndex
ShowAfterInsert(show, nodeIndex) ==
    IF show >= nodeIndex THEN show + 1 ELSE show

\* InsertNode at the end: if (m_showIndex == oldNodeCount) ++m_showIndex
ShowAfterAppend(show, oldNodeCount) ==
    IF show = oldNodeCount THEN show + 1 ELSE show

\* mutant: > instead of >=
ShowAfterRemove_Strict(show, nodeIndex) ==
    IF show > nodeIndex THEN show - 1 ELSE show

\* mutant: the decrement is not conditional
ShowAfterRemove_Always(show, nodeIndex) == show - 1

\* RemoveNode: if (m_showIndex >= m_pcr.nodeIndex) --m_showIndex
ShowAfterRemove(show, nodeIndex) ==
    IF show >= nodeIndex THEN show - 1 ELSE show

\* mutant: the two directions exchanged
ShowAfterMove_Reversed(show, nodeIndex, targetIndex) ==
    IF show > Min(nodeIndex, targetIndex) /\ show < Max(nodeIndex, targetIndex)
    THEN IF nodeIndex < targetIndex THEN show + 1 ELSE show - 1
    ELSE show

\* MoveNode: renumbering of the show index
ShowAfterMove(show, nodeIndex, targetIndex) ==
    IF show > Min(nodeIndex, targetIndex) /\ show < Max(nodeIndex, targetIndex)
    THEN IF nodeIndex < targetIndex THEN show - 1 ELSE show + 1
    ELSE show

\* "reset PCR" at the end of handlePCR
ResetPCR == m_pcr' = NoPCR

NoIssued == [last |-> NoPCR, replaced |-> FALSE]

\* App::requestXxx(): the request is written into the one slot m_pcr
Issue(req) ==
    /\ m_pcr' = req
    /\ issued' = [last |-> req, replaced |-> (issued.replaced \/ m_pcr.type # "None")]

-----------------------------------------------------------------------------
\* App: state at the start of the main loop, after loadPattern() has uploaded
\* the initial base image. Shader files named on the command line go through
\* handleInputFile like dropped files (DropShaderFile).

\* the Node object created by Pipeline::addNode, with its identity
NewNode(nodes) == [id |-> FreshId(nodes)]

AppInit ==
    /\ m_nodes = <<>>
    /\ m_showIndex = 0
    /\ m_pcr = NoPCR
    /\ m_pipelineChanged = TRUE
    /\ oldShowIndex = 0
    /\ pc = "events"
    /\ handled = [type |-> "None", nodeIndex |-> 0, targetIndex |-> 0, added |-> FALSE,
                  showIndex |-> 0, nodes |-> <<>>, last |-> NoPCR, replaced |-> FALSE]
    /\ issued = NoIssued
    /\ frameRenders = 0
    /\ resultShow = 0
    /\ uploaded = TRUE
    /\ loop = <<>>

Init == AppInit /\ LoadInit

\* the frame loop on its own: App::run does not touch the Node object on which
\* Node::load is exercised, and the variables of that part stay empty
NoLoad == <<>>

FrameInit ==
    /\ AppInit
    /\ node = NoLoad
    /\ loadInput = NoLoad
    /\ loadResult = FALSE
    /\ prevPrograms = NoLoad
    /\ ld = NoLoad
    /\ m_passes = NoLoad
    /\ sources = NoLoad
    /\ annot = NoLoad

-----------------------------------------------------------------------------
\* App::handleEvents: one step per polled event

\* App::handleInputFile for a shader file; ok = Pipeline::addNode succeeded
DropShaderFile ==
    /\ pc = "events"
    /\ nodeCount < MaxNodes
    /\ \E path \in DropPaths, ok \in BOOLEAN :
        /\ isShaderFile(path)
        /\ IF ok
           THEN /\ m_nodes' = AddNodeAt(m_nodes, m_showIndex, NewNode(m_nodes))
                /\ m_showIndex' = m_showIndex + 1
                /\ m_pipelineChanged' = TRUE
           ELSE UNCHANGED <<m_nodes, m_showIndex, m_pipelineChanged>>
    /\ UNCHANGED <<m_pcr, oldShowIndex, pc, handled, loadVars, loop, frameVars>>

\* App::handleInputFile for an image file (loadImage marks the pipeline as
\* changed when the upload succeeds) or for an unrecognized file
DropOtherFile ==
    /\ pc = "events"
    /\ \E path \in DropPaths, ok \in BOOLEAN :
        /\ ~isShaderFile(path)
        /\ m_pipelineChanged' = (m_pipelineChanged \/ (isImageFile(path) /\ ok))
        /\ uploaded' = (uploaded \/ (isImageFile(path) /\ ok))
    /\ UNCHANGED <<m_nodes, m_showIndex, m_pcr, oldShowIndex, pc, handled, loadVars, loop, issued, frameRenders, resultShow>>

\* SDLK_F5: m_pipeline.reload() loads every node again (with Ctrl, after
\* updateImage())
KeyReload ==
    /\ pc = "events"
    /\ nodeCount > 0
    /\ m_pipelineChanged' = TRUE
    /\ \E ctrl \in BOOLEAN, ok \in BOOLEAN : uploaded' = (uploaded \/ (ctrl /\ ok))
    /\ UNCHANGED <<m_nodes, m_showIndex, m_pcr, oldShowIndex, pc, handled, loadVars, loop, issued, frameRenders, resultShow>>

\* SDL_PollEvent returns 0; drawUI starts: int oldShowIndex = m_showIndex
EventsDone ==
    /\ pc = "events"
    /\ oldShowIndex' = m_showIndex
    /\ pc' = "ui"
    /\ UNCHANGED <<m_nodes, m_showIndex, m_pcr, m_pipelineChanged, handled, loadVars, loop, frameVars>>

-----------------------------------------------------------------------------
\* App::drawUI: one step per activated widget. The request methods are public
\* members of App; the widgets of drawUI call them with the index of the node
\* whose context menu is open (insert, reload, remove), with a neighbouring
\* index (move up / move down) or with 0 ("Add Filter"). The actions below
\* let a request carry any index of IndexRange.

\* "Show" button of the input image (0) or of node nodeIndex
ShowButton ==
    /\ pc = "ui"
    /\ \E nodeIndex \in 0 .. nodeCount : m_showIndex' = nodeIndex
    /\ UNCHANGED <<m_nodes, m_pcr, m_pipelineChanged, oldShowIndex, pc, handled, loadVars, loop, frameVars>>

\* App::requestInsertNode(path, nodeIndex)
RequestInsertNode ==
    /\ pc = "ui"
    /\ nodeCount < MaxNodes
    /\ \E nodeIndex \in IndexRange, path \in ShaderExts :
        Issue([type |-> "InsertNode", nodeIndex |-> nodeIndex, targetIndex |-> 0, path |-> path])
    /\ UNCHANGED <<m_nodes, m_showIndex, m_pipelineChanged, oldShowIndex, pc, handled, loadVars, loop, frameRenders, resultShow, uploaded>>

\* App::requestReloadNode(nodeIndex)
RequestReloadNode ==
    /\ pc = "ui"
    /\ \E nodeIndex \in IndexRange :
        Issue([type |-> "ReloadNode", nodeIndex |-> nodeIndex, targetIndex |-> 0, path |-> NoPath])
    /\ UNCHANGED <<m_nodes, m_showIndex, m_pipelineChanged, oldShowIndex, pc, handled, loadVars, loop, frameRenders, resultShow, uploaded>>

\* App::requestRemoveNode(nodeIndex)
RequestRemoveNode ==
    /\ pc = "ui"
    /\ \E nodeIndex \in IndexRange :
        Issue([type |-> "RemoveNode", nodeIndex |-> nodeIndex, targetIndex |-> 0, path |-> NoPath])
    /\ UNCHANGED <<m_nodes, m_showIndex, m_pipelineChanged, oldShowIndex, pc, handled, loadVars, loop, frameRenders, resultShow, uploaded>>

\* App::requestMoveNode(fromIndex, toIndex)
RequestMoveNode ==
    /\ pc = "ui"
    /\ \E nodeIndex \in IndexRange, targetIndex \in IndexRange :
        Issue([type |-> "MoveNode", nodeIndex |-> nodeIndex, targetIndex |-> targetIndex, path |-> NoPath])
    /\ UNCHANGED <<m_nodes, m_showIndex, m_pipelineChanged, oldShowIndex, pc, handled, loadVars, loop, frameRenders, resultShow, uploaded>>

\* App::requestUpdateSource()
RequestUpdateSource ==
    /\ pc = "ui"
    /\ Issue([type |-> "UpdateSource", nodeIndex |-> 0, targetIndex |-> 0, path |-> NoPath])
    /\ UNCHANGED <<m_nodes, m_showIndex, m_pipelineChanged, oldShowIndex, pc, handled, loadVars, loop, frameRenders, resultShow, uploaded>>

\* App::requestLoadImage(path)
RequestLoadImage ==
    /\ pc = "ui"
    /\ Issue([type |-> "LoadImage", nodeIndex |-> 0, targetIndex |-> 0, path |-> "png"])
    /\ UNCHANGED <<m_nodes, m_showIndex, m_pipelineChanged, oldShowIndex, pc, handled, loadVars, loop, frameRenders, resultShow, uploaded>>

\* App::requestSaveResult(path)
RequestSaveResult ==
    /\ pc = "ui"
    /\ \E path \in SavePaths :
        Issue([type |-> "SaveResult", nodeIndex |-> 0, targetIndex |-> 0, path |-> path])
    /\ UNCHANGED <<m_nodes, m_showIndex, m_pipelineChanged, oldShowIndex, pc, handled, loadVars, loop, frameRenders, resultShow, uploaded>>

\* mutant: a changed show index does not mark the pipeline as changed
DrawUIDone_NoShowCheck ==
    /\ pc = "ui"
    /\ oldShowIndex' = 0
    /\ pc' = "pcr"
    /\ UNCHANGED <<m_nodes, m_showIndex, m_pcr, m_pipelineChanged, handled, loadVars, loop, frameVars>>

\* end of drawUI: if (m_showIndex != oldShowIndex) m_pipeline.markAsChanged();
\* the local oldShowIndex goes out of scope
DrawUIDone ==
    /\ pc = "ui"
    /\ m_pipelineChanged' = (m_pipelineChanged \/ (m_showIndex # oldShowIndex))
    /\ oldShowIndex' = 0
    /\ pc' = "pcr"
    /\ UNCHANGED <<m_nodes, m_showIndex, m_pcr, handled, loadVars, loop, frameVars>>

-----------------------------------------------------------------------------
\* App::handlePCR, one action per case of the switch

NoHandled == [type |-> "None", nodeIndex |-> 0, targetIndex |-> 0, added |-> FALSE,
              showIndex |-> 0, nodes |-> <<>>, last |-> NoPCR, replaced |-> FALSE]

\* history of the call: the request, the result of Pipeline::addNode (if it
\* was called), the show index and node sequence before the call, and the
\* history of the requests issued in this frame
Handled(added) ==
    [type |-> m_pcr.type, nodeIndex |-> m_pcr.nodeIndex, targetIndex |-> m_pcr.targetIndex,
     added |-> added, showIndex |-> m_showIndex, nodes |-> m_nodes,
     last |-> issued.last, replaced |-> issued.replaced]

\* if (m_pcr.type == None) return false;
PCRNone ==
    /\ pc = "pcr"
    /\ m_pcr.type = "None"
    /\ pc' = "render"
    /\ UNCHANGED <<m_nodes, m_showIndex, m_pcr, m_pipelineChanged, oldShowIndex, handled, loadVars, loop, frameVars>>

\* mutant: an invalid index inserts at the front
InsertArg_Front == IF validNodeIndex THEN m_pcr.nodeIndex - 1 ELSE 0

\* index argument of Pipeline::addNode in the InsertNode case: nodeIndex - 1
\* for a valid index, the default (end of the pipeline) otherwise
InsertArg == IF validNodeIndex THEN m_pcr.nodeIndex - 1 ELSE DefaultIndex

\* mutant: the result of Pipeline::addNode is not tested
InsertShow_IgnoresResult(ok) ==
    IF validNodeIndex
    THEN ShowAfterInsert(m_showIndex, m_pcr.nodeIndex)
    ELSE ShowAfterAppend(m_showIndex, nodeCount)

\* m_showIndex after the InsertNode case; ok = the result of Pipeline::addNode
InsertShow(ok) ==
    IF ok
    THEN IF validNodeIndex
         THEN ShowAfterInsert(m_showIndex, m_pcr.nodeIndex)
         ELSE ShowAfterAppend(m_showIndex, nodeCount)
    ELSE m_showIndex

\* case InsertNode
PCRInsertNode ==
    /\ pc = "pcr"
    /\ m_pcr.type = "InsertNode"
    /\ \E ok \in BOOLEAN :
        /\ m_nodes' = IF ok THEN AddNodeAt(m_nodes, InsertArg, NewNode(m_nodes)) ELSE m_nodes
        /\ m_showIndex' = InsertShow(ok)
        /\ m_pipelineChanged' = (m_pipelineChanged \/ ok)
        /\ handled' = Handled(ok)
    /\ ResetPCR
    /\ issued' = NoIssued
    /\ pc' = "render"
    /\ UNCHANGED <<oldShowIndex, loadVars, loop, frameRenders, resultShow, uploaded>>

\* mutant: the break of the ReloadNode case is missing, control falls through
\* into the RemoveNode case
PCRReloadNode_FallThrough ==
    /\ pc = "pcr"
    /\ m_pcr.type = "ReloadNode"
    /\ IF validNodeIndex
       THEN /\ m_nodes' = RemoveNodeAt(ReloadNodeAt(m_nodes, m_pcr.nodeIndex - 1), m_pcr.nodeIndex - 1)
            /\ m_showIndex' = ShowAfterRemove(m_showIndex, m_pcr.nodeIndex)
            /\ m_pipelineChanged' = TRUE
       ELSE UNCHANGED <<m_nodes, m_showIndex, m_pipelineChanged>>
    /\ handled' = Handled(FALSE)
    /\ ResetPCR
    /\ issued' = NoIssued
    /\ pc' = "render"
    /\ UNCHANGED <<oldShowIndex, loadVars, loop, frameRenders, resultShow, uploaded>>

\* case ReloadNode
PCRReloadNode ==
    /\ pc = "pcr"
    /\ m_pcr.type = "ReloadNode"
    /\ IF validNodeIndex
       THEN /\ m_nodes' = ReloadNodeAt(m_nodes, m_pcr.nodeIndex - 1)
            /\ m_pipelineChanged' = TRUE
       ELSE UNCHANGED <<m_nodes, m_pipelineChanged>>
    /\ handled' = Handled(FALSE)
    /\ ResetPCR
    /\ issued' = NoIssued
    /\ pc' = "render"
    /\ UNCHANGED <<m_showIndex, oldShowIndex, loadVars, loop, frameRenders, resultShow, uploaded>>

\* case RemoveNode
PCRRemoveNode ==
    /\ pc = "pcr"
    /\ m_pcr.type = "RemoveNode"
    /\ IF validNodeIndex
       THEN /\ m_nodes' = RemoveNodeAt(m_nodes, m_pcr.nodeIndex - 1)
            /\ m_showIndex' = ShowAfterRemove(m_showIndex, m_pcr.nodeIndex)
            /\ m_pipelineChanged' = TRUE
       ELSE UNCHANGED <<m_nodes, m_showIndex, m_pipelineChanged>>
    /\ handled' = Handled(FALSE)
    /\ ResetPCR
    /\ issued' = NoIssued
    /\ pc' = "render"
    /\ UNCHANGED <<oldShowIndex, loadVars, loop, frameRenders, resultShow, uploaded>>

\* case MoveNode
PCRMoveNode ==
    /\ pc = "pcr"
    /\ m_pcr.type = "MoveNode"
    /\ IF validMove
       THEN /\ m_nodes' = MoveNodeAt(m_nodes, m_pcr.nodeIndex - 1, m_pcr.targetIndex - 1)
            /\ m_showIndex' = ShowAfterMove(m_showIndex, m_pcr.nodeIndex, m_pcr.targetIndex)
            /\ m_pipelineChanged' = TRUE
       ELSE UNCHANGED <<m_nodes, m_showIndex, m_pipelineChanged>>
    /\ handled' = Handled(FALSE)
    /\ ResetPCR
    /\ issued' = NoIssued
    /\ pc' = "render"
    /\ UNCHANGED <<oldShowIndex, loadVars, loop, frameRenders, resultShow, uploaded>>

\* cases UpdateSource and LoadImage; ok = updateImage() / loadImage() succeeded
PCRImage ==
    /\ pc = "pcr"
    /\ m_pcr.type \in {"UpdateSource", "LoadImage"}
    /\ \E ok \in BOOLEAN :
        /\ m_pipelineChanged' = (m_pipelineChanged \/ ok)
        /\ uploaded' = (uploaded \/ ok)
    /\ handled' = Handled(FALSE)
    /\ ResetPCR
    /\ issued' = NoIssued
    /\ pc' = "render"
    /\ UNCHANGED <<m_nodes, m_showIndex, oldShowIndex, loadVars, loop, frameRenders, resultShow>>

\* mutant: the request is kept for the main loop whatever its extension
PCRSaveResult_AlwaysKept ==
    /\ pc = "pcr"
    /\ m_pcr.type = "SaveResult"
    /\ UNCHANGED m_pcr
    /\ handled' = Handled(FALSE)
    /\ issued' = NoIssued
    /\ pc' = "render"
    /\ UNCHANGED <<m_nodes, m_showIndex, m_pipelineChanged, oldShowIndex, loadVars, loop, frameRenders, resultShow, uploaded>>

\* case SaveResult: a supported extension keeps the request for the main loop
PCRSaveResult ==
    /\ pc = "pcr"
    /\ m_pcr.type = "SaveResult"
    /\ IF isSaveImageFile(m_pcr.path)
       THEN UNCHANGED m_pcr
       ELSE ResetPCR
    /\ handled' = Handled(FALSE)
    /\ issued' = NoIssued
    /\ pc' = "render"
    /\ UNCHANGED <<m_nodes, m_showIndex, m_pipelineChanged, oldShowIndex, loadVars, loop, frameRenders, resultShow, uploaded>>

-----------------------------------------------------------------------------
\* App::run: the rest of the frame

\* mutant: the pipeline is executed whether it has changed or not
Render_Unconditional ==
    /\ pc = "render"
    /\ frameRenders' = frameRenders + 1
    /\ resultShow' = m_showIndex
    /\ uploaded' = FALSE
    /\ m_pipelineChanged' = FALSE
    /\ handled' = NoHandled
    /\ pc' = "save"
    /\ UNCHANGED <<m_nodes, m_showIndex, m_pcr, oldShowIndex, loadVars, loop, issued>>

\* if (m_pipeline.changed()) m_pipeline.render(..., m_showIndex);
\* Pipeline::render leaves the output of stage m_showIndex in resultTex() and
\* clears the dirty flag
Render ==
    /\ pc = "render"
    /\ IF m_pipelineChanged
       THEN /\ frameRenders' = frameRenders + 1
            /\ resultShow' = m_showIndex
            /\ uploaded' = FALSE
            /\ m_pipelineChanged' = FALSE
       ELSE UNCHANGED <<frameRenders, resultShow, uploaded, m_pipelineChanged>>
    /\ handled' = NoHandled
    /\ pc' = "save"
    /\ UNCHANGED <<m_nodes, m_showIndex, m_pcr, oldShowIndex, loadVars, loop, issued>>

\* mutant: the request is saved but stays in the slot
SaveRequested_KeepsRequest ==
    /\ pc = "save"
    /\ pc' = "present"
    /\ UNCHANGED <<m_nodes, m_showIndex, m_pcr, m_pipelineChanged, oldShowIndex, handled, loadVars, loop, frameVars>>

\* if (m_pcr.type == SaveResult) { saveResult(); type = None; path.clear(); }
SaveRequested ==
    /\ pc = "save"
    /\ m_pcr' = IF m_pcr.type = "SaveResult"
                THEN [m_pcr EXCEPT !.type = "None", !.path = NoPath]
                ELSE m_pcr
    /\ pc' = "present"
    /\ UNCHANGED <<m_nodes, m_showIndex, m_pipelineChanged, oldShowIndex, handled, loadVars, loop, frameVars>>

\* display rendering of resultTex(), SDL_GL_SwapWindow; the loop goes on to
\* the next frame
Present ==
    /\ pc = "present"
    /\ pc' = "events"
    /\ frameRenders' = 0
    /\ UNCHANGED <<m_nodes, m_showIndex, m_pcr, m_pipelineChanged, oldShowIndex, handled, loadVars, loop, issued, resultShow, uploaded>>

Next ==
    \/ DropShaderFile
    \/ KeyReload
    \/ DropOtherFile
    \/ EventsDone
    \/ ShowButton
    \/ RequestInsertNode
    \/ RequestReloadNode
    \/ RequestRemoveNode
    \/ RequestMoveNode
    \/ RequestUpdateSource
    \/ RequestLoadImage
    \/ RequestSaveResult
    \/ DrawUIDone
    \/ PCRNone
    \/ PCRInsertNode
    \/ PCRReloadNode
    \/ PCRRemoveNode
    \/ PCRMoveNode
    \/ PCRImage
    \/ PCRSaveResult
    \/ Render
    \/ SaveRequested
    \/ Present

Spec == FrameInit /\ [][Next]_vars

\* Node::load exercised on its own
LoadNext == Load

SpecLoad == Init /\ [][LoadNext]_vars

\* invocations of Node::load followed item by item through the file
PassesNext ==
    \/ ReadPassDecl
    \/ ReadCoordComment
    \/ ReadFilterComment
    \/ FinishLoad
    \/ BeginLoad

SpecPasses == Init /\ [][PassesNext]_vars

\* invocations of Node::load followed through the uniform declarations, the
\* comments and the declaration of a color filter's run()
ParamsNext ==
    \/ ReadUniform
    \/ ReadStatement
    \/ ReadComment
    \/ ReadRun
    \/ FinishLoad
    \/ BeginLoad

SpecParams == Init /\ [][ParamsNext]_vars

\* a file loaded and then reloaded, with the UI in between
ReloadNext ==
    \/ ChooseFile
    \/ ReplayItem
    \/ FinishReplay
    \/ EditValue
    \/ BeginReload

SpecReload == Init /\ [][ReloadNext]_vars

TypeOK ==
    /\ m_showIndex \in Int
    /\ Len(m_nodes) <= MaxNodes
    /\ m_pcr.type \in PCRTypes
    /\ pc \in {"events", "ui", "pcr", "render", "save", "present"}
    /\ frameRenders \in 0 .. 1
    /\ resultShow \in 0 .. MaxNodes
    /\ uploaded \in BOOLEAN
    /\ issued.last.type \in PCRTypes
    /\ ld # NoLoad =>
        /\ ld.items \in 0 .. MaxItems
        /\ ld.helpers \in HelperModes
        /\ ld.passMask \subseteq PassIndices

-----------------------------------------------------------------------------
\* Properties of the active-stage index and of handlePCR

\* the request handlePCR has just handled carried a valid node index
HandledValidIndex ==
    (handled.nodeIndex > 0) /\ (handled.nodeIndex <= Len(handled.nodes))

\* ... and, for a move, a valid target different from the source
HandledValidMove ==
    /\ HandledValidIndex
    /\ handled.nodeIndex # handled.targetIndex
    /\ handled.targetIndex > 0
    /\ handled.targetIndex <= Len(handled.nodes)

\* identity of the stage shown for show index show in node sequence nodes
\* (0 = the input image)
ShownStage(nodes, show) ==
    IF show >= 1 /\ show <= Len(nodes) THEN nodes[show].id ELSE 0

\* C1: whenever the pipeline is about to be rendered, the active-stage index
\* lies in [0, nodeCount].
C1_ShowIndexInRange ==
    pc = "render" => (0 <= m_showIndex /\ m_showIndex <= nodeCount)

C1_Witness ==
    /\ pc = "render"
    /\ handled.type = "RemoveNode"
    /\ HandledValidIndex
    /\ handled.showIndex = Len(handled.nodes)
    /\ m_showIndex = nodeCount

\* C2: when passes 0..k-1 compile and link and pass k (1 <= k <= 3) fails,
\* Node::load leaves compiled-pass count k and returns success; the count is 0
\* only when pass 0 is missing or fails.
C2_CompiledPrefixKept ==
    /\ \A k \in 1 .. (MaxPasses - 1) :
          ( /\ \A j \in 0 .. k : j \in loadInput.passMask
            /\ \A j \in 0 .. (k - 1) : loadInput.gl[j] = "ok"
            /\ loadInput.gl[k] # "ok" )
          => (node.passCount = k /\ loadResult)
    /\ (node.passCount = 0) => (0 \notin loadInput.passMask \/ loadInput.gl[0] # "ok")

\* C3 as stated: after a successful insert the show index is incremented
\* exactly when it was >= the insertion position (nodeCount + 1 for an
\* append), and the stage shown before is the stage shown afterwards.
C3_InsertKeepsShownStage_Original ==
    (pc = "render" /\ handled.type = "InsertNode" /\ handled.added) =>
        LET insertPos == IF HandledValidIndex THEN handled.nodeIndex
                         ELSE Len(handled.nodes) + 1
        IN  /\ m_showIndex = IF handled.showIndex >= insertPos
                             THEN handled.showIndex + 1 ELSE handled.showIndex
            /\ ShownStage(m_nodes, m_showIndex) = ShownStage(handled.nodes, handled.showIndex)

\* C3 (amended): after a successful insert at a valid index the show index is
\* incremented exactly when it was >= the insertion position and the stage
\* shown stays the same; after a successful append it is incremented exactly
\* when it was the old node count, and then the appended node is shown, and
\* otherwise the stage shown stays the same.
C3_InsertRenumbersShowIndex ==
    (pc = "render" /\ handled.type = "InsertNode" /\ handled.added) =>
        IF HandledValidIndex
        THEN /\ m_showIndex = IF handled.showIndex >= handled.nodeIndex
                              THEN handled.showIndex + 1 ELSE handled.showIndex
             /\ ShownStage(m_nodes, m_showIndex) = ShownStage(handled.nodes, handled.showIndex)
        ELSE IF handled.showIndex = Len(handled.nodes)
             THEN /\ m_showIndex = handled.showIndex + 1
                  /\ m_showIndex = nodeCount
                  /\ ShownStage(m_nodes, m_showIndex) \notin NodeIds(handled.nodes)
             ELSE /\ m_showIndex = handled.showIndex
                  /\ ShownStage(m_nodes, m_showIndex) = ShownStage(handled.nodes, handled.showIndex)

C3_Witness ==
    /\ pc = "render"
    /\ handled.type = "InsertNode"
    /\ handled.added
    /\ ~HandledValidIndex
    /\ Len(handled.nodes) >= 1
    /\ handled.showIndex = Len(handled.nodes)

\* C4: after a valid move(from, to) with from # to, a show index that was equal
\* to from is equal to to.
C4_ShowTravelsWithMovedNode ==
    (pc = "render" /\ handled.type = "MoveNode" /\ HandledValidMove
        /\ handled.showIndex = handled.nodeIndex)
    => m_showIndex = handled.targetIndex

\* C5: after a valid move(from, to), a show index strictly between from and to
\* changes by exactly one, down when from < to and up when from > to; a show
\* index outside [min(from, to), max(from, to)] is unchanged.
C5_MoveShiftsShowIndexBetween ==
    (pc = "render" /\ handled.type = "MoveNode" /\ HandledValidMove) =>
        LET from == handled.nodeIndex
            to   == handled.targetIndex
            show == handled.showIndex
        IN  /\ (show > Min(from, to) /\ show < Max(from, to)) =>
                  m_showIndex = IF from < to THEN show - 1 ELSE show + 1
            /\ (show < Min(from, to) \/ show > Max(from, to)) => m_showIndex = show

C5_Witness ==
    /\ pc = "render"
    /\ handled.type = "MoveNode"
    /\ HandledValidMove
    /\ handled.showIndex > handled.targetIndex
    /\ handled.showIndex < handled.nodeIndex
    /\ m_showIndex = handled.showIndex + 1

\* C6: after a valid remove(index) the node count is one less and the show
\* index is one less exactly when it was >= index, never below 0.
C6_RemoveRenumbersShowIndex ==
    (pc = "render" /\ handled.type = "RemoveNode" /\ HandledValidIndex) =>
        /\ nodeCount = Len(handled.nodes) - 1
        /\ m_showIndex = IF handled.showIndex >= handled.nodeIndex
                         THEN handled.showIndex - 1 ELSE handled.showIndex
        /\ m_showIndex >= 0

C6_Witness ==
    /\ pc = "render"
    /\ handled.type = "RemoveNode"
    /\ HandledValidIndex
    /\ handled.showIndex = handled.nodeIndex
    /\ handled.nodeIndex = 2
    /\ m_showIndex = 1

\* C7: a reload request changes neither the show index nor the node count nor
\* the order of the nodes.
C7_ReloadKeepsPipelineShape ==
    (pc = "render" /\ handled.type = "ReloadNode") =>
        /\ m_showIndex = handled.showIndex
        /\ nodeCount = Len(handled.nodes)
        /\ m_nodes = handled.nodes

C7_Witness ==
    /\ pc = "render"
    /\ handled.type = "ReloadNode"
    /\ HandledValidIndex
    /\ Len(handled.nodes) >= 2
    /\ handled.showIndex >= handled.nodeIndex
    /\ m_pipelineChanged

\* C8: a remove, move or reload request with a node index outside
\* [1, nodeCount], or a move with a target outside [1, nodeCount] or equal to
\* its source, changes neither the node sequence nor the show index, and the
\* request slot is cleared.
C8_InvalidRequestIgnored ==
    ( /\ pc = "render"
      /\ \/ handled.type \in {"RemoveNode", "ReloadNode"} /\ ~HandledValidIndex
         \/ handled.type = "MoveNode" /\ ~HandledValidMove )
    => /\ m_nodes = handled.nodes
       /\ m_showIndex = handled.showIndex
       /\ m_pcr = NoPCR

C8_Witness ==
    /\ pc = "render"
    /\ handled.type = "RemoveNode"
    /\ handled.nodeIndex = 0
    /\ Len(handled.nodes) >= 1
    /\ handled.showIndex >= 1
    /\ m_pcr = NoPCR

\* C9: an insert request with an index outside [1, nodeCount] appends the new
\* node at the end of the node sequence when adding it succeeds.
C9_InvalidIndexInsertAppends ==
    (pc = "render" /\ handled.type = "InsertNode" /\ ~HandledValidIndex /\ handled.added) =>
        /\ nodeCount = Len(handled.nodes) + 1
        /\ SubSeq(m_nodes, 1, Len(handled.nodes)) = handled.nodes
        /\ m_nodes[nodeCount].id \notin NodeIds(handled.nodes)

C9_Witness ==
    /\ pc = "render"
    /\ handled.type = "InsertNode"
    /\ handled.nodeIndex = 0
    /\ handled.added
    /\ Len(handled.nodes) >= 2
    /\ nodeCount = Len(handled.nodes) + 1

\* C10 as stated: an insert request with an invalid index adds no node and
\* leaves the show index unchanged.
C10_InvalidIndexInsertNoOp_Original ==
    (pc = "render" /\ handled.type = "InsertNode" /\ ~HandledValidIndex) =>
        /\ m_nodes = handled.nodes
        /\ m_showIndex = handled.showIndex

\* C10 (amended): an insert request with an invalid index is not rejected for
\* its index; it adds no node and leaves the show index unchanged only when
\* adding the node fails, and adds exactly one node otherwise.
C10_InvalidIndexInsertNoOpOnlyOnFailure ==
    (pc = "render" /\ handled.type = "InsertNode" /\ ~HandledValidIndex) =>
        /\ handled.added => nodeCount = Len(handled.nodes) + 1
        /\ ~handled.added => (m_nodes = handled.nodes /\ m_showIndex = handled.showIndex)

C10_Witness ==
    /\ pc = "render"
    /\ handled.type = "InsertNode"
    /\ handled.nodeIndex > Len(handled.nodes)
    /\ ~handled.added
    /\ handled.showIndex = Len(handled.nodes)
    /\ Len(handled.nodes) >= 1

-----------------------------------------------------------------------------
\* Properties of the frame loop

\* the request handlePCR has just handled, as it stood in the slot
HandledRequest ==
    [type |-> handled.type, nodeIndex |-> handled.nodeIndex,
     targetIndex |-> handled.targetIndex, path |-> handled.last.path]

\* C11: the slot holds the last request issued in the current frame (a later
\* request replaces an unconsumed one), handlePCR handles exactly that request,
\* after handlePCR only a save request with a supported extension is still in
\* the slot, and at presentation and at the start of the next frame the slot
\* is empty.
C11_OneRequestConsumedPerFrame ==
    /\ (pc \in {"ui", "pcr"}) => m_pcr = issued.last
    /\ (pc = "render" /\ handled.type # "None") => HandledRequest = handled.last
    /\ (pc \in {"render", "save"}) =>
          (m_pcr = NoPCR \/ (m_pcr.type = "SaveResult" /\ isSaveImageFile(m_pcr.path)))
    /\ (pc \in {"present", "events"}) => m_pcr = NoPCR

C11_Witness ==
    /\ pc = "render"
    /\ handled.replaced
    /\ handled.type = "RemoveNode"
    /\ HandledValidIndex
    /\ nodeCount = Len(handled.nodes) - 1
    /\ m_pcr = NoPCR

\* C12 as stated: in every frame the pipeline is executed at most once, only
\* when it is dirty and only after handlePCR has consumed any structural
\* request; it is not dirty at presentation; the node sequence and the show
\* index change neither between execution and presentation nor during drawUI.
C12_FrameOrder_Original ==
    /\ [](frameRenders <= 1)
    /\ [][frameRenders' > frameRenders =>
            (pc = "render" /\ m_pipelineChanged /\ m_pcr.type \in {"None", "SaveResult"})]_vars
    /\ [](pc = "present" => ~m_pipelineChanged)
    /\ [][(pc \in {"render", "save", "present"}) => UNCHANGED <<m_nodes, m_showIndex>>]_vars
    /\ [][(pc = "ui") => UNCHANGED <<m_nodes, m_showIndex>>]_vars

\* C12 (amended): as stated, except that during drawUI only the node sequence
\* is left alone: a Show button sets the show index at once, to the index of
\* an existing stage.
C12_FrameOrder ==
    /\ [](frameRenders <= 1)
    /\ [][frameRenders' > frameRenders =>
            (pc = "render" /\ m_pipelineChanged /\ m_pcr.type \in {"None", "SaveResult"})]_vars
    /\ [](pc = "present" => ~m_pipelineChanged)
    /\ [][(pc \in {"render", "save", "present"}) => UNCHANGED <<m_nodes, m_showIndex>>]_vars
    /\ [][(pc = "ui") => /\ UNCHANGED m_nodes
                         /\ m_showIndex' \in 0 .. nodeCount]_vars

C12_Witness ==
    /\ pc = "save"
    /\ frameRenders = 1
    /\ nodeCount >= 2
    /\ m_showIndex >= 1
    /\ resultShow = m_showIndex
    /\ m_pcr.type = "SaveResult"

\* C13: at the render check the pipeline is dirty whenever the show index
\* differs from the stage last rendered or a base image was uploaded since;
\* after the render step the dirty flag is clear, the rendered stage is the
\* show index and no upload is left unprocessed, up to and including
\* presentation.
C13_ShowChangeOrUploadRenders ==
    /\ (pc = "render" /\ (m_showIndex # resultShow \/ uploaded)) => m_pipelineChanged
    /\ (pc \in {"save", "present"}) =>
          (~m_pipelineChanged /\ resultShow = m_showIndex /\ ~uploaded)

C13_Witness ==
    /\ pc = "render"
    /\ handled.type = "None"
    /\ m_showIndex < resultShow
    /\ ~uploaded
    /\ m_pipelineChanged

-----------------------------------------------------------------------------
\* Properties of Node::load: declared passes and compiled-pass count

Range(seq) == { seq[i] : i \in 1 .. Len(seq) }

\* a file has been loaded
Loaded == loadInput # NoContents

\* the passes 0 .. p-1 are declared and compile and link
PrefixCompiles(p) == \A j \in 0 .. (p - 1) : j \in loadInput.passMask /\ loadInput.gl[j] = "ok"

\* C14: when passes 0 .. p-1 are declared (and compile and link), pass p is not
\* declared and some later pass is, Node::load leaves compiled-pass count p,
\* returns success, adds the 'intermediate passes are missing' diagnostic,
\* has linked programs for the passes before the gap and has not touched the
\* programs of the passes from the gap on.
C14_GapTruncatesPassList ==
    Loaded =>
      \A p \in 1 .. (MaxPasses - 1) :
        ( /\ PrefixCompiles(p)
          /\ p \notin loadInput.passMask
          /\ \E j \in (p + 1) .. (MaxPasses - 1) : j \in loadInput.passMask )
        => /\ node.passCount = p
           /\ loadResult
           /\ ErrTruncated \in Range(node.errors)
           /\ \A k \in 0 .. (p - 1) : node.programs[k] = "linked"
           /\ \A k \in p .. (MaxPasses - 1) : node.programs[k] = prevPrograms[k]

C14_Witness ==
    /\ loadInput.passMask = {0, 2}
    /\ loadInput.gl[0] = "ok"
    /\ node.passCount = 1
    /\ node.programs[2] = "none"
    /\ ErrTruncated \in Range(node.errors)

\* C15 as stated: a file declaring passes 0, 1 and 2 but not 3, all compiling
\* and linking, yields compiled-pass count 3 and a truncation diagnostic.
C15_ThreePassesWithDiagnostic_Original ==
    (Loaded /\ loadInput.passMask = {0, 1, 2} /\ PrefixCompiles(3)) =>
        /\ node.passCount = 3
        /\ loadResult
        /\ ErrTruncated \in Range(node.errors)

\* C15 (amended): a file declaring passes 0, 1 and 2 but not 3, all compiling
\* and linking, yields compiled-pass count 3, success and no diagnostic: nothing
\* is truncated when the declared passes are contiguous.
C15_ThreePassesNoDiagnostic ==
    (Loaded /\ loadInput.passMask = {0, 1, 2} /\ PrefixCompiles(3)) =>
        /\ node.passCount = 3
        /\ loadResult
        /\ node.errors = <<>>

C15_Witness ==
    /\ loadInput.passMask = {0, 1, 2}
    /\ PrefixCompiles(3)
    /\ node.passCount = 3
    /\ node.programs[2] = "linked"

\* C16: a file that declares no pass 0 makes Node::load return failure with
\* compiled-pass count 0, the 'no valid run' diagnostic, no program touched,
\* and the parameter list equal to the supported uniforms the file declares.
C16_NoEntryPointFailsSoftly ==
    (Loaded /\ 0 \notin loadInput.passMask) =>
        /\ ~loadResult
        /\ node.passCount = 0
        /\ node.errors # <<>>
        /\ ErrNoRun \in Range(node.errors)
        /\ node.params = loadInput.newParams
        /\ node.programs = prevPrograms

C16_Witness ==
    /\ loadInput.passMask = {1, 2}
    /\ Len(loadInput.newParams) = 2
    /\ node.params = loadInput.newParams
    /\ node.passCount = 0
    /\ ~loadResult
    /\ prevPrograms[0] = "linked"

-----------------------------------------------------------------------------
\* Properties of Node::load: the generated shader text and the pass settings

\* Node::load has run to load_finalize
LoadDone == ld.phase = "done"

\* the passes the pass loop assembled a source for
Assembled == { k \in PassIndices : sources[k] # <<>> }

\* the pieces written to the stream in the iteration of pass k: what follows
\* the text of the earlier iterations
GeneratedFor(k) ==
    SubSeq(sources[k], (IF k = 0 THEN 0 ELSE Len(sources[k - 1])) + 1, Len(sources[k]))

\* the passes that count as compiled after the load
CompiledPasses == 0 .. (node.passCount - 1)

RunVec4ToVec3 ==
    /\ LoadDone
    /\ 0 \in Assembled
    /\ ld.singlePass
    /\ ld.inputs[0] = "RGBA"
    /\ ld.outputs[0] = "RGB"

C19_ColorInputForcesNoCoordMapping ==
    LoadDone =>
        \A k \in CompiledPasses :
            LET text == Range(GeneratedFor(k))
            IN  /\ (ld.inputs[k] \in {"RGB", "RGBA"}) =>
                       /\ m_passes[k].coordMode = "None"
                       /\ m_passes[k].locMap2Tex = "-1"
                       /\ "uniform vec4 gips_map2tex;\n" \notin text
                       /\ Range(PixelHelper) \cap text = {}
                /\ (ld.inputs[k] = "Coord") =>
                       /\ m_passes[k].locMap2Tex = "gips_map2tex"
                       /\ "uniform vec4 gips_map2tex;\n" \in text
                       /\ Range(PixelHelper) \subseteq text
                /\ (m_passes[k].coordMode \in {"Pixel", "Relative"}) =>
                       ld.inputs[k] = "Coord"

\* C19 witness: a compiled RGB-input pass declared after '@coord=rel', next
\* to a compiled Position-input pass that kept the mode Relative
C19_Witness ==
    /\ LoadDone
    /\ node.passCount = 2
    /\ ld.inputs[0] = "Coord" /\ m_passes[0].coordMode = "Relative"
    /\ ld.inputs[1] = "RGB" /\ annot.declCoord[1] = "rel"

\* the mode a @coord value selects, as the format defines it
DocumentedCoordMode(value) ==
    CASE value = "pixel"                -> "Pixel"
      [] value = "none"                 -> "None"
      [] value \in {"relative", "rel"}  -> "Relative"

\* the filtering a @filter value selects, as the format defines it
DocumentedTexFilter(value) == value \in {"1", "on", "linear", "bilinear"}

\* C20: the texture-filter mode of a declared pass, and the coordinate-mapping
\* mode of a declared Position-input pass, are those of the most recent valid
\* @filter / @coord annotation before the pass's declaration, however many
\* passes were declared in between.
C20_AnnotationsApplyForward ==
    LoadDone =>
        \A k \in loadInput.passMask :
            /\ (annot.declFilter[k] # NoValue) =>
                   m_passes[k].texFilter = DocumentedTexFilter(annot.declFilter[k])
            /\ (annot.declCoord[k] # NoValue /\ ld.inputs[k] = "Coord") =>
                   m_passes[k].coordMode = DocumentedCoordMode(annot.declCoord[k])

-----------------------------------------------------------------------------
\* Properties of Node::load: defaults, annotation keys and parameters

\* C21: a pass with Position input that is declared with no configuration
\* annotation before it has the coordinate mapping mode None and texture
\* filtering on
C21_DefaultCoordModeNone ==
    ~annot.configured =>
        \A k \in ld.passMask :
            ld.inputs[k] = "Coord" =>
                /\ m_passes[k].coordMode = "None"
                /\ m_passes[k].texFilter = TRUE

\* the keys of the format's table of recognized keys
DocumentedKeys ==
    {"min", "max", "off", "on", "color", "rgb", "rgba", "toggle", "switch", "unit",
     "coord", "coords", "map", "filter", "filt", "version", "gips_version"}

\* C22: no key of the table of recognized keys is reported as an
\* unrecognized token
C22_TableKeysRecognized ==
    \A i \in 1 .. Len(ld.err) :
        \A key \in DocumentedKeys : ld.err[i] # ErrUnrecognized(key)

\* the comment just read, and the parameter it was read for
JustRead(pieces) == History.item = CommentOf(pieces)

Target == ld.newParams[History.target]

\* the diagnostics the comment just read has added
NewDiagnostics == SubSeq(ld.err, History.errBefore + 1, Len(ld.err))

\* C23: a comment '// @bogus @min=2 label' adds one diagnostic line for the
\* unknown key, and after a parameter it still sets the minimum to 2 and
\* leaves the description "label", with every @token removed
C23_UnknownKeyDoesNotStopExtraction ==
    JustRead(<<Token("bogus", NoValue), Token("min", "2"), Text("label")>>) =>
        /\ Cardinality({ i \in 1 .. Len(NewDiagnostics) :
                           NewDiagnostics[i] = ErrUnrecognized("bogus") }) = 1
        /\ History.target # 0 =>
            /\ NewDiagnostics = <<ErrUnrecognized("bogus")>>
            /\ Target.minValue = 2
            /\ Target.desc = <<"label">>

\* C24: a comment that is separated from the declaration of a parameter by
\* other tokens changes no parameter
C24_OnlyImmediateCommentConfigures ==
    (History.item.kind = "comment" /\ History.gap /\ History.target # 0) =>
        Target = History.before

\* the declared data type of a parameter
DataTypeOf(p) == (CHOOSE d \in UniformDecls : d.name = p.name).dataType

Compatible(p) ==
    /\ p.type = "Toggle" => DataTypeOf(p) = "float"
    /\ p.type = "RGB" => DataTypeOf(p) = "vec3"
    /\ p.type = "RGBA" => DataTypeOf(p) = "vec4"

\* the override the comment just read asks for, if it does not fit the
\* data type of its parameter
IncompatibleOverrides ==
    { a \in { History.item.pieces[i] : i \in 1 .. Len(History.item.pieces) } :
        \/ a.key \in {"toggle", "switch"} /\ DataTypeOf(History.before) # "float"
        \/ a.key = "color" /\ DataTypeOf(History.before) \notin {"vec3", "vec4"} }

\* C25: every parameter's type is compatible with its data type; an
\* incompatible override adds a diagnostic, leaves the type as it was, and
\* the Node with a run() that compiles is loaded all the same
C25_TypeCompatibleWithDataType ==
    /\ \A i \in 1 .. Len(ld.newParams) : Compatible(ld.newParams[i])
    /\ \A i \in 1 .. Len(node.params) : Compatible(node.params[i])
    /\ (History.item.kind = "comment" /\ History.target # 0) =>
          \A a \in IncompatibleOverrides :
              /\ \E i \in 1 .. Len(NewDiagnostics) :
                    NewDiagnostics[i] = ErrIncompatible(a.key, History.before.name)
              /\ Target.type = History.before.type
    /\ (LoadDone /\ 0 \in loadInput.passMask /\ loadInput.gl[0] = "ok") => loadResult

\* the parameters of the loaded Node that had no comment
Uncommented(name) ==
    { i \in 1 .. Len(node.params) :
        node.params[i].name = name /\ i \notin History.commented }

\* C26 as stated: 'uniform vec3 c = vec3(1,0,0);' with no comment yields an
\* empty description, the type RGB and the default (1,0,0)
C26_Vec3DefaultsToRGB_Original ==
    LoadDone =>
        \A i \in Uncommented("c") :
            /\ node.params[i].desc = <<>>
            /\ node.params[i].type = "RGB"
            /\ SubSeq(node.params[i].value, 1, 3) = <<1, 0, 0>>

\* C26, amended: 'uniform vec3 c = vec3(1,0,0);' with no comment yields an
\* empty description, the type Value3 (three sliders) and the default (1,0,0)
C26_Vec3DefaultsToValue3 ==
    LoadDone =>
        \A i \in Uncommented("c") :
            /\ node.params[i].desc = <<>>
            /\ node.params[i].type = "Value3"
            /\ SubSeq(node.params[i].value, 1, 3) = <<1, 0, 0>>

C26_Witness == LoadDone /\ Uncommented("c") # {} /\ loadResult

\* C27: a float parameter followed by '// invert @toggle @off=1 @on=-1' is a
\* Toggle with minimum 1, maximum -1 and the description "invert"
C27_ToggleOffOn ==
    (/\ JustRead(<<Text("invert"), Token("toggle", NoValue), Token("off", "1"),
                   Token("on", "-1")>>)
     /\ History.target # 0
     /\ DataTypeOf(History.before) = "float") =>
        /\ Target.type = "Toggle"
        /\ Target.minValue = 1
        /\ Target.maxValue = 0 - 1
        /\ Target.desc = <<"invert">>

\* C28: '@min=2 @max=-1' is stored as given, minimum 2 and maximum -1, with
\* no reordering
C28_MinAboveMaxStoredAsGiven ==
    (JustRead(<<Token("min", "2"), Token("max", "-1")>>) /\ History.target # 0) =>
        /\ Target.minValue = 2
        /\ Target.maxValue = 0 - 1

\* the passes the load just done has compiled and linked
LinkedNow == { k \in LoopIterations(loadInput) : loadInput.gl[k] = "ok" }

\* C30: after a reload no pass at an index at or above the new compiled-pass
\* count holds a linked program of the previous load
C30_NoProgramOfPreviousLoad ==
    \A k \in PassIndices :
        (k >= node.passCount /\ node.programs[k] = "linked") => k \in LinkedNow

\* C29: a file loaded and then reloaded unchanged yields the same per-pass
\* sources, compiled-pass count, diagnostics and parameters as the first load
\* did, the values of the parameters being the declared defaults again
C29_ReloadOfUnchangedFileIsIdentical ==
    (History.reloaded /\ LoadDone) =>
        /\ sources = History.first.sources
        /\ node.passCount = History.first.passCount
        /\ node.errors = History.first.errors
        /\ node.params = History.first.params

-----------------------------------------------------------------------------
\* Properties of Node::load: the text of each pass, the entry points and the
\* default values

\* C31: for every assembled pass k the text handed to the compiler is the
\* fixed header for pass k, the user code and the generated main body for
\* pass k, and nothing else: one '#version' line, one 'main' definition, no
\* text generated for the passes 0..k-1
C31_SourceHoldsOnePassOnly ==
    LoadDone =>
        \A k \in Assembled :
            /\ sources[k] = PassText(k, ld)
            /\ Cardinality({ i \in 1 .. Len(sources[k]) :
                               sources[k][i] = "#version 330 core\n" }) = 1
            /\ Cardinality({ i \in 1 .. Len(sources[k]) :
                               sources[k][i] = "void main() {\n" }) = 1

\* C32: when the entry point of pass 0 is declared as 'run' the Node is
\* single-pass: its compiled-pass count is at most 1, whatever run_pass2 ..
\* run_pass4 declarations the file holds besides
C32_RunMeansSinglePass ==
    (LoadDone /\ ld.singlePass) => node.passCount <= 1

\* the entry point the generated main body of pass k calls: the piece "run"
\* with the suffix piece that follows it, if one does
Invoked(k) ==
    LET g == GeneratedFor(k)
        i == CHOOSE i \in 1 .. Len(g) : g[i] = "run"
    IN  CASE g[i + 1] \in {"(gips_pos)", "(color.rgb)", "(color)"} -> "run"
          [] g[i + 1] = "_pass1" -> "run_pass1"
          [] g[i + 1] = "_pass2" -> "run_pass2"
          [] g[i + 1] = "_pass3" -> "run_pass3"
          [] g[i + 1] = "_pass4" -> "run_pass4"
          [] OTHER               -> g[i + 1]

\* the name under which pass k was declared last
DeclaredName(k) == History.lastDecl[k].decl.name

\* C33: the generated main body of every assembled pass k calls an entry
\* point that the file declares for pass k: 'run' only for k = 0 when the
\* last declaration of pass 0 was 'run', and 'run_pass<k+1>' in every other
\* case
C33_InvokesDeclaredEntryPoint ==
    LoadDone =>
        \A k \in Assembled :
            /\ History.lastDecl[k] # NoItem
            /\ Invoked(k) = DeclaredName(k)
            /\ PassOf(Invoked(k)) = k
            /\ (Invoked(k) = "run") <=> (k = 0 /\ DeclaredName(0) = "run")

C33_Witness ==
    /\ LoadDone
    /\ Assembled = {0, 1}
    /\ Invoked(0) = "run_pass1"
    /\ Invoked(1) = "run_pass2"

\* C34: when a pass index is declared more than once, the input shape, the
\* output shape, the suffix style and the coordinate and filter modes used
\* for the assembly are those of the last declaration, and the repeated
\* declaration adds no diagnostic
C34_LastDeclarationWins ==
    /\ (ld.phase = "tokenizing" /\ History.dup # NoItem) =>
          LET k == PassOf(History.dup.name)
          IN  /\ Len(ld.err) = History.errBefore
              /\ History.lastDecl[k].decl = History.dup
              /\ ld.inputs[k] = InputOf(History.dup.arg)
              /\ ld.outputs[k] = OutputOf(History.dup.ret)
              /\ m_passes[k].texFilter = History.lastDecl[k].texFilter
              /\ m_passes[k].coordMode = History.lastDecl[k].coordMode
    /\ LoadDone =>
          \A k \in Assembled :
              LET d      == History.lastDecl[k]
                  input  == InputOf(d.decl.arg)
                  output == OutputOf(d.decl.ret)
              IN  /\ GeneratedFor(k) =
                        Boilerplate(input)
                        \o <<LineDirective(k), UserCode>>
                        \o MainPrologue(input)
                        \o OutputStatement(k, input, output, DeclaredName(0) = "run")
                  /\ m_passes[k].texFilter = d.texFilter
                  /\ m_passes[k].coordMode = ForcedCoordMode(input, d.coordMode)

C34_Witness ==
    /\ LoadDone
    /\ loadResult
    /\ History.dup # NoItem
    /\ PassOf(History.dup.name) \in Assembled
    /\ History.dup.name = "run_pass1"
    /\ History.dup.arg = "vec2"
    /\ ld.singlePass = FALSE

\* the declaration just read, if it is one of a supported data type
JustDeclared ==
    /\ History.item.kind = "uniform"
    /\ History.item.dataType \in {"float", "vec2", "vec3", "vec4"}

\* the numeric tokens of a declaration after its first '=' and before its
\* ';', in their order
DefaultTokens(tokens) ==
    LET semi  == CHOOSE i \in 1 .. Len(tokens) :
                     tokens[i] = ";" /\ \A j \in 1 .. (i - 1) : tokens[j] # ";"
        eqs   == { i \in 1 .. (semi - 1) : tokens[i] = "=" }
        first == CHOOSE i \in eqs : \A j \in eqs : i <= j
    IN  IF eqs = {} THEN <<>>
        ELSE SelectSeq(SubSeq(tokens, first + 1, semi - 1), isNum)

\* the default value the declaration states: the first four of these
\* numbers, 0 where none is supplied
DeclaredDefault(tokens) ==
    LET nums == DefaultTokens(tokens)
    IN  [i \in 1 .. 4 |-> IF i <= Len(nums) THEN NumOf[nums[i]] ELSE 0]

\* C35: the default value of a supported uniform declaration is made of the
\* numeric tokens after the first token with a '=' and before the token with
\* the ';', in their order and at most 4 of them; other tokens in between are
\* skipped, components not supplied stay 0, and numbers before the '=' or
\* after the ';' change nothing
C35_DefaultIsNumbersBetweenEqAndSemicolon ==
    JustDeclared =>
        \E i \in 1 .. Len(ld.newParams) :
            /\ ld.newParams[i].name = History.item.name
            /\ \A j \in (i + 1) .. Len(ld.newParams) :
                  ld.newParams[j].name # History.item.name
            /\ ld.newParams[i].value = DeclaredDefault(History.item.tokens)

\* the comment just read follows the declaration of a uniform of an
\* unsupported data type
AfterUnsupported ==
    /\ History.item.kind = "comment"
    /\ History.prev.kind = "uniform"
    /\ History.prev.dataType \notin {"float", "vec2", "vec3", "vec4"}

\* C36: the declaration of a uniform of an unsupported data type creates no
\* Parameter and adds an 'unsupported data type' diagnostic, and a comment
\* that follows it modifies no Parameter, the one declared before included
C36_UnsupportedUniformOpensNoParameter ==
    /\ (History.item.kind = "uniform" /\ ~JustDeclared) =>
          /\ \A i \in 1 .. Len(ld.newParams) : ld.newParams[i].name # History.item.name
          /\ ld.err # <<>>
          /\ ld.err[Len(ld.err)] = ErrUnsupported(History.item.name)
    /\ (AfterUnsupported /\ History.target # 0) => Target = History.before

\* the diagnostic of an annotation with a known key that fails validation,
\* "" if it does not fail
Failure(a, hasParam) ==
    CASE a.key \in {"min", "max", "off", "on", "unit", "toggle", "switch", "color"}
            /\ ~hasParam -> ErrNeedParam(a.key)
      [] a.key \in {"min", "max", "off", "on"} /\ ~isNum(a.value) -> ErrNeedNum(a.key)
      [] a.key \in {"unit", "coord", "coords", "map", "filter", "filt"}
            /\ a.value = NoValue -> ErrNeedValue(a.key)
      [] a.key \in {"coord", "coords", "map"} /\ a.value \notin ValidCoordValues ->
            ErrCoordMode(a.value)
      [] a.key \in {"filter", "filt"} /\ a.value \notin ValidFilterValues ->
            ErrFilterMode(a.value)
      [] OTHER -> ""

\* the comment just read holds annotations, and each of them fails validation
AllFail ==
    /\ History.item.kind = "comment"
    /\ Annotations(History.item.pieces) # <<>>
    /\ \A i \in 1 .. Len(Annotations(History.item.pieces)) :
          Failure(Annotations(History.item.pieces)[i], History.target # 0) # ""

\* C37: an annotation with a known key that fails validation adds exactly one
\* diagnostic line, which is not 'unrecognized token', and leaves every field
\* of the parameter and the current coordinate and filter modes unchanged
C37_FailedAnnotationOneDiagnostic ==
    AllFail =>
        LET annotations == Annotations(History.item.pieces)
        IN  /\ NewDiagnostics =
                  [i \in 1 .. Len(annotations) |->
                      Failure(annotations[i], History.target # 0)]
            /\ History.target # 0 => Target = History.before
            /\ <<ld.coordMode, ld.texFilter>> = History.modes

-----------------------------------------------------------------------------
\* Properties of the frame loop: saving and waiting

\* the main loop is at 'request to save?' with a save request in the slot:
\* saveResult(m_pcr.path) is called
SaveStep == pc = "save" /\ m_pcr.type = "SaveResult"

\* C38: a SaveResult request with a supported save extension stays in the
\* slot through handlePCR and through the execution of the pipeline, is
\* carried out after that execution, when the result is that of the current
\* node sequence and show index, and is cleared in the same frame; a
\* SaveResult request with an unsupported extension is cleared by handlePCR
\* and never reaches saveResult
C38_SaveAfterExecution ==
    /\ [][(pc = "pcr" /\ m_pcr.type = "SaveResult") =>
            m_pcr' = IF isSaveImageFile(m_pcr.path) THEN m_pcr ELSE NoPCR]_vars
    /\ [][(pc = "render" /\ m_pcr.type = "SaveResult") =>
            (m_pcr' = m_pcr /\ pc' = "save")]_vars
    /\ [](SaveStep => /\ isSaveImageFile(m_pcr.path)
                      /\ ~m_pipelineChanged
                      /\ ~uploaded
                      /\ resultShow = m_showIndex)
    /\ [][SaveStep => (m_pcr' = NoPCR /\ pc' = "present")]_vars
    /\ []((pc \in {"present", "events"}) => m_pcr.type # "SaveResult")

C38_Witness ==
    /\ SaveStep
    /\ m_pcr.path = "png"
    /\ frameRenders = 1
    /\ nodeCount = 1
    /\ m_showIndex = 0
    /\ resultShow = 0

-----------------------------------------------------------------------------
\* App::run followed with its waiting: the local hadEvents, m_active and the
\* argument of App::handleEvents. The frame is followed handler by handler.

\* events one call of App::handleEvents polls at most
MaxPolled == 2

\* history of one frame: whether handleEvents polled an event and whether one
\* of them ended the application, the request handlePCR found, whether its node
\* index (for a move: both indices) was valid, the result of the call it made
\* and its return value
IdleFrame == [polled |-> FALSE, quit |-> FALSE, type |-> "None",
             valid |-> FALSE, ok |-> FALSE, done |-> FALSE]

\* what is kept of a frame's history once the frame is over; loaded = an
\* UpdateSource or LoadImage request was handled and the image was loaded
Summary(f) == [polled |-> f.polled, quit |-> f.quit, done |-> f.done,
               loaded |-> (f.type \in {"UpdateSource", "LoadImage"} /\ f.ok)]

\* bool hadEvents = true; m_active is true from App::run's start
EnterMainLoop ==
    /\ loop = <<>>
    /\ pc = "events"
    /\ loop' = [hadEvents |-> TRUE, active |-> TRUE, polling |-> FALSE, polls |-> 0,
                waited |-> FALSE, frame |-> IdleFrame, prev |-> <<>>]
    /\ UNCHANGED <<m_nodes, m_showIndex, m_pcr, m_pipelineChanged, oldShowIndex, pc, handled, frameVars, loadVars>>

Followed == loop # <<>>

\* while (m_active) { hadEvents = handleEvents(!hadEvents);
\* handleEvents: bool hadEvents = false; if (wait) SDL_WaitEvent(nullptr);
BeginEvents ==
    /\ Followed
    /\ pc = "events"
    /\ ~loop.polling
    /\ loop.active
    /\ loop' = [loop EXCEPT !.polling = TRUE, !.polls = 0, !.waited = ~loop.hadEvents,
                            !.frame = IdleFrame]
    /\ UNCHANGED <<m_nodes, m_showIndex, m_pcr, m_pipelineChanged, oldShowIndex, pc, handled, frameVars, loadVars>>

\* SDL_PollEvent returned an event: hadEvents = true
Polling == Followed /\ pc = "events" /\ loop.polling /\ loop.polls < MaxPolled

Polled(quit) ==
    [loop EXCEPT !.polls = @ + 1, !.active = @ /\ ~quit,
                 !.frame.polled = TRUE, !.frame.quit = @ \/ quit]

\* SDL_QUIT, or SDL_KEYUP of Ctrl+Q: m_active = false
PollQuit ==
    /\ Polling
    /\ loop' = Polled(TRUE)
    /\ UNCHANGED <<m_nodes, m_showIndex, m_pcr, m_pipelineChanged, oldShowIndex, pc, handled, frameVars, loadVars>>

\* SDL_KEYUP of F5: m_pipeline.reload(), with Ctrl after updateImage()
PollKeyReload ==
    /\ Polling
    /\ nodeCount > 0
    /\ m_pipelineChanged' = TRUE
    /\ \E ctrl \in BOOLEAN, ok \in BOOLEAN : uploaded' = (uploaded \/ (ctrl /\ ok))
    /\ loop' = Polled(FALSE)
    /\ UNCHANGED <<m_nodes, m_showIndex, m_pcr, oldShowIndex, pc, handled, issued, frameRenders, resultShow, loadVars>>

\* SDL_DROPFILE: handleInputFile(ev.drop.file); ok = Pipeline::addNode or
\* loadImage succeeded
PollDropFile ==
    /\ Polling
    /\ \E path \in DropPaths, ok \in BOOLEAN :
        /\ isShaderFile(path) => nodeCount < MaxNodes
        /\ m_nodes' = IF isShaderFile(path) /\ ok
                      THEN AddNodeAt(m_nodes, m_showIndex, NewNode(m_nodes))
                      ELSE m_nodes
        /\ m_showIndex' = IF isShaderFile(path) /\ ok THEN m_showIndex + 1 ELSE m_showIndex
        /\ m_pipelineChanged' = (m_pipelineChanged \/ ((isShaderFile(path) \/ isImageFile(path)) /\ ok))
        /\ uploaded' = (uploaded \/ (~isShaderFile(path) /\ isImageFile(path) /\ ok))
    /\ loop' = Polled(FALSE)
    /\ UNCHANGED <<m_pcr, oldShowIndex, pc, handled, issued, frameRenders, resultShow, loadVars>>

\* any other event (mouse, other keys, F9, default)
PollOther ==
    /\ Polling
    /\ loop' = Polled(FALSE)
    /\ UNCHANGED <<m_nodes, m_showIndex, m_pcr, m_pipelineChanged, oldShowIndex, pc, handled, frameVars, loadVars>>

\* SDL_PollEvent returns 0: return hadEvents; (SDL_WaitEvent returns without
\* an event in the queue when it fails)
EndEvents ==
    /\ Followed
    /\ pc = "events"
    /\ loop.polling
    /\ loop' = [loop EXCEPT !.polling = FALSE, !.polls = 0, !.hadEvents = loop.frame.polled]
    /\ pc' = "ui"
    /\ UNCHANGED <<m_nodes, m_showIndex, m_pcr, m_pipelineChanged, oldShowIndex, handled, frameVars, loadVars>>

\* the requests the widgets of drawUI issue
UIRequests ==
    [type : {"InsertNode"}, nodeIndex : IndexRange, targetIndex : {0}, path : ShaderExts]
    \cup [type : {"ReloadNode", "RemoveNode"}, nodeIndex : IndexRange, targetIndex : {0}, path : {NoPath}]
    \cup [type : {"MoveNode"}, nodeIndex : IndexRange, targetIndex : IndexRange, path : {NoPath}]
    \cup [type : {"UpdateSource"}, nodeIndex : {0}, targetIndex : {0}, path : {NoPath}]
    \cup [type : {"LoadImage"}, nodeIndex : {0}, targetIndex : {0}, path : {"png"}]
    \cup [type : {"SaveResult"}, nodeIndex : {0}, targetIndex : {0}, path : SavePaths]

\* App::drawUI as a whole: a Show button or none, a request or none, and
\* if (m_showIndex != oldShowIndex) m_pipeline.markAsChanged();
DrawUI ==
    /\ Followed
    /\ pc = "ui"
    /\ \E show \in 0 .. nodeCount, req \in UIRequests \cup {NoPCR} :
        /\ (req.type = "InsertNode") => nodeCount < MaxNodes
        /\ m_showIndex' = show
        /\ m_pipelineChanged' = (m_pipelineChanged \/ (show # m_showIndex))
        /\ m_pcr' = IF req = NoPCR THEN m_pcr ELSE req
    /\ pc' = "pcr"
    /\ UNCHANGED <<m_nodes, oldShowIndex, handled, frameVars, loop, loadVars>>

\* mutant: the result of handlePCR is not looked at
HadEventsAfter_PCRIgnored(hadEvents, done) == hadEvents

\* if (handlePCR()) { hadEvents = true; }
HadEventsAfter(hadEvents, done) == hadEvents \/ done

\* the return value of App::handlePCR
Done ==
    CASE m_pcr.type = "InsertNode" -> TRUE
      [] m_pcr.type \in {"ReloadNode", "RemoveNode"} -> validNodeIndex
      [] m_pcr.type = "MoveNode" -> validMove
      [] m_pcr.type = "SaveResult" -> isSaveImageFile(m_pcr.path)
      [] OTHER -> FALSE

\* App::handlePCR as a whole; ok = the result of Pipeline::addNode,
\* updateImage() or loadImage()
HandlePCR ==
    /\ Followed
    /\ pc = "pcr"
    /\ \E ok \in BOOLEAN :
        /\ m_nodes' =
            CASE m_pcr.type = "InsertNode" /\ ok -> AddNodeAt(m_nodes, InsertArg, NewNode(m_nodes))
              [] m_pcr.type = "ReloadNode" /\ validNodeIndex -> ReloadNodeAt(m_nodes, m_pcr.nodeIndex - 1)
              [] m_pcr.type = "RemoveNode" /\ validNodeIndex -> RemoveNodeAt(m_nodes, m_pcr.nodeIndex - 1)
              [] m_pcr.type = "MoveNode" /\ validMove -> MoveNodeAt(m_nodes, m_pcr.nodeIndex - 1, m_pcr.targetIndex - 1)
              [] OTHER -> m_nodes
        /\ m_showIndex' =
            CASE m_pcr.type = "InsertNode" -> InsertShow(ok)
              [] m_pcr.type = "RemoveNode" /\ validNodeIndex -> ShowAfterRemove(m_showIndex, m_pcr.nodeIndex)
              [] m_pcr.type = "MoveNode" /\ validMove -> ShowAfterMove(m_showIndex, m_pcr.nodeIndex, m_pcr.targetIndex)
              [] OTHER -> m_showIndex
        /\ m_pipelineChanged' =
            CASE m_pcr.type \in {"InsertNode", "UpdateSource", "LoadImage"} -> m_pipelineChanged \/ ok
              [] m_pcr.type \in {"ReloadNode", "RemoveNode"} -> m_pipelineChanged \/ validNodeIndex
              [] m_pcr.type = "MoveNode" -> m_pipelineChanged \/ validMove
              [] OTHER -> m_pipelineChanged
        /\ uploaded' = (uploaded \/ (m_pcr.type \in {"UpdateSource", "LoadImage"} /\ ok))
        /\ loop' = [loop EXCEPT
                      !.hadEvents = HadEventsAfter(@, Done),
                      !.frame.type = m_pcr.type,
                      !.frame.valid = IF m_pcr.type = "MoveNode" THEN validMove ELSE validNodeIndex,
                      !.frame.ok = ok /\ m_pcr.type \in {"InsertNode", "UpdateSource", "LoadImage"},
                      !.frame.done = Done]
    /\ m_pcr' = IF m_pcr.type = "SaveResult" /\ isSaveImageFile(m_pcr.path) THEN m_pcr ELSE NoPCR
    /\ pc' = "render"
    /\ UNCHANGED <<oldShowIndex, handled, issued, frameRenders, resultShow, loadVars>>

\* the rest of the loop body: the pipeline is executed if it changed, a kept
\* SaveResult request is carried out and cleared, the frame is presented
FinishFrame ==
    /\ Followed
    /\ pc = "render"
    /\ resultShow' = IF m_pipelineChanged THEN m_showIndex ELSE resultShow
    /\ uploaded' = (uploaded /\ ~m_pipelineChanged)
    /\ m_pipelineChanged' = FALSE
    /\ m_pcr' = IF m_pcr.type = "SaveResult"
                THEN [m_pcr EXCEPT !.type = "None", !.path = NoPath]
                ELSE m_pcr
    /\ loop' = [loop EXCEPT !.prev = Summary(loop.frame), !.frame = IdleFrame]
    /\ pc' = "events"
    /\ UNCHANGED <<m_nodes, m_showIndex, oldShowIndex, handled, issued, frameRenders, loadVars>>

WaitNext ==
    \/ EnterMainLoop
    \/ BeginEvents
    \/ PollQuit
    \/ PollKeyReload
    \/ PollOther
    \/ PollDropFile
    \/ EndEvents
    \/ DrawUI
    \/ HandlePCR
    \/ FinishFrame

SpecWait == FrameInit /\ [][WaitNext]_vars

-----------------------------------------------------------------------------
\* Properties of the frame loop: waiting for events

\* a frame is past its call of handleEvents
PastEvents == Followed /\ pc \in {"ui", "pcr", "render"}

\* the loop stands at its top, between two frames
BetweenFrames == Followed /\ pc = "events" /\ ~loop.polling /\ loop.prev # <<>>

\* the request the frame found was carried out: handlePCR returned true, or
\* updateImage() / loadImage() succeeded
Completed(f) == f.done \/ f.loaded

\* C39 as stated: the main loop blocks waiting for an event only when the
\* previous frame neither received an input event nor completed a pipeline
\* change request, and after every frame that had an event a further frame is
\* processed, without blocking.
C39_WaitOnlyAfterIdleFrame_Original ==
    /\ (PastEvents /\ loop.waited) =>
          /\ loop.prev # <<>>
          /\ ~loop.prev.polled
          /\ ~Completed(loop.prev)
    /\ (BetweenFrames /\ loop.prev.polled) => loop.active
    /\ (PastEvents /\ loop.prev # <<>> /\ loop.prev.polled) => ~loop.waited

\* C39, amended: handleEvents is called with wait = true exactly when the
\* previous frame polled no event and its handlePCR returned false; handlePCR
\* returns true for an InsertNode request, for a ReloadNode, RemoveNode or
\* MoveNode request with valid indices and for a SaveResult request with a
\* supported extension, and false otherwise (for UpdateSource and LoadImage
\* also when the image was loaded); the first frame does not wait; after a
\* frame that polled an event the next frame does not wait, and no frame
\* follows a frame that polled a quit event.
C39_WaitsExactlyAfterNoEventAndNoDone ==
    /\ PastEvents =>
          (loop.waited <=> (loop.prev # <<>> /\ ~loop.prev.polled /\ ~loop.prev.done))
    /\ (Followed /\ pc = "render") =>
          (loop.frame.done <=>
              \/ loop.frame.type = "InsertNode"
              \/ loop.frame.type \in {"ReloadNode", "RemoveNode", "MoveNode"} /\ loop.frame.valid
              \/ loop.frame.type = "SaveResult" /\ m_pcr.type = "SaveResult")
    /\ (PastEvents /\ loop.prev # <<>>) => ~loop.prev.quit
    /\ BetweenFrames => (loop.active <=> ~loop.prev.quit)

\* the frame after a frame without events that loaded an image waits
C39_Witness ==
    /\ PastEvents
    /\ loop.waited
    /\ loop.prev.loaded
    /\ ~loop.prev.polled

====
